---------------------------- MODULE Spec2Model ----------------------------
(***************************************************************************)
(* Route Memory matching engine and Navigator of the inference service     *)
(* (src/inference/inference/app.py), the throttle control of the teleop    *)
(* server (src/teleop/teleop/app.py) and the person-following controller   *)
(* (src/following/app.py).                                                 *)
(*                                                                         *)
(* Numbers.  The code computes in floating point; the model computes in    *)
(* exact fixed point:                                                      *)
(*   - a distance is an integer number of 1/DistUnit (tenths);             *)
(*   - a softmax weight is an integer number of 1/SelUnit (quarters);      *)
(*   - an evidence value is an integer number of 1/EvUnit (1e-7, the       *)
(*     resolution of the float32 evidence array).                          *)
(* Absent (Python None) is the empty tuple, a present value x is <<x>>.    *)
(* Image indices and waypoint ids are 0-based as in the code; TLA+         *)
(* sequences are 1-based, so image i is element i + 1.                     *)
(***************************************************************************)
EXTENDS Integers, Sequences, FiniteSets, TLC

None == <<>>
Some(x) == <<x>>
IsNone(o) == o = <<>>
Val(o) == o[1]

\* Bounds of the model.
MaxImages == 3
MaxPoints == 2
MaxCalls == 2
MaxTicks == 3
MaxTasks == 2
MaxDim == 2
MaxStarts == 2
\* The largest throttle the user interface asks for, in twentieths.
MaxTarget == 5
\* The persons detected in one frame, and the frames of the stream handled.
MaxPersons == 2
MaxFrames == 5

\* Fixed-point units.
DistUnit == 2 * 5
SelUnit == 2 * 2
EvUnit == 10 * 1000 * 1000
Million == 1000 * 1000

Range(s) == {s[i] : i \in DOMAIN s}
Abs(x) == IF x < 0 THEN -x ELSE x
Max(a, b) == IF a >= b THEN a ELSE b
Min(a, b) == IF a <= b THEN a ELSE b

\* A function on 1..n as a tuple.
AsSeq(f) == f \o <<>>

RECURSIVE SumSeq(_)
SumSeq(s) == IF s = <<>> THEN 0 ELSE Head(s) + SumSeq(Tail(s))

\* numpy argmin / argmax: the first index (1-based here) of the extreme value.
ArgMin(s) == CHOOSE i \in DOMAIN s :
    /\ \A j \in DOMAIN s : s[i] <= s[j]
    /\ \A j \in DOMAIN s : j < i => s[j] > s[i]
ArgMax(s) == CHOOSE i \in DOMAIN s :
    /\ \A j \in DOMAIN s : s[i] >= s[j]
    /\ \A j \in DOMAIN s : j < i => s[j] < s[i]

\* The k-th smallest element (k 0-based) of a sequence.
Kth(s, k) == CHOOSE v \in Range(s) :
    /\ Cardinality({i \in DOMAIN s : s[i] < v}) <= k
    /\ k < Cardinality({i \in DOMAIN s : s[i] <= v})

\* np.percentile(s, q) for q = 25 * quarter, linear interpolation between the
\* order statistics around position (n - 1) * q / 100; the result is in quarters
\* of the unit of s.
Percentile4(s, quarter) ==
    LET n == Len(s)
        pos4 == quarter * (n - 1)
        lo == pos4 \div 4
        fr == pos4 % 4
        hi == Min(lo + 1, n - 1)
    IN Kth(s, lo) * (4 - fr) + Kth(s, hi) * fr

\* np.median(s), in halves of the unit of s.
Median2(s) ==
    LET n == Len(s)
    IN IF n % 2 = 1 THEN 2 * Kth(s, (n - 1) \div 2)
       ELSE Kth(s, n \div 2 - 1) + Kth(s, n \div 2)

\* scipy.stats.median_absolute_deviation(s) without its scale factor:
\* median(|s - median(s)|), in quarters of the unit of s.
MedAbsDev4(s) == Median2(AsSeq([i \in DOMAIN s |-> Abs(2 * s[i] - Median2(s))]))

\* The default scale of scipy.stats.median_absolute_deviation, 1.4826, times 10^4.
MadScale10k == 14826

\* RouteMemory._eps = 1e-6 is 1 / EpsInv.
EpsInv == Million

\* RouteMemory._outlier_stats: the statistics the three outlier tests read, kept as
\* exact integers: n, the sum S and the scaled variance V = n * sum(d^2) - S^2
\* (np.std^2 = V / n^2), the lower outlier bound q25 - 1.5 * iqr in eighths
\* (lqr8 = 5 * q25 - 3 * q75 with the percentiles in quarters), and the median
\* absolute deviation in quarters before scaling.
outlier_stats(distances) ==
    LET n == Len(distances)
        S == SumSeq(distances)
        q25 == Percentile4(distances, 1)
        q75 == Percentile4(distances, 3)
    IN [n |-> n,
        S |-> S,
        V |-> n * SumSeq(AsSeq([i \in DOMAIN distances |-> distances[i] * distances[i]])) - S * S,
        lqr8 |-> 5 * q25 - 3 * q75,
        mad4 |-> MedAbsDev4(distances)]

\* _distances / _mu < _std for one distance d >= 0, with _mu = mean + eps > 0:
\*   d / mu < std  <=>  d^2 < std^2 * mu^2
\*   <=>  d^2 n^4 U^2 E^2 < V (S E + n U)^2          (U = DistUnit, E = EpsInv)
\*   <=>  (d^2 n^4 U^2 - V S^2) E^2 < V (2 S n U E + n^2 U^2)
\*   <=>  L E <= K + (Q - 1) \div E   with L, K, Q as below, when V > 0;
\* with V = 0 the standard deviation is 0 and no d >= 0 passes.
BelowStd(d, st) ==
    LET nU == st.n * DistUnit
        L == d * d * st.n * st.n * nU * nU - st.V * st.S * st.S
        K == st.V * 2 * st.S * nU
        Q == st.V * nU * nU
    IN /\ st.V > 0
       /\ L <= (K + ((Q - 1) \div EpsInv)) \div EpsInv

\* _distances < _lqr
BelowLqr(d, st) == 8 * d < st.lqr8

\* _distances < _mad
BelowMad(d, st) == 4 * 10000 * d < MadScale10k * st.mad4


----------------------------------------------------------------------------
(* RouteMemory *)

\* Mutant of EvidenceFloor: the evidence of a matched waypoint is set back to
\* 0, and 0 is the lower clip.
FloorAtZero == 0 * EvUnit

\* Mutant of EvidenceCap: the evidence is clipped at 0.50.
CapAtHalf == 5 * (EvUnit \div 10)

\* The constants of match_d1, in evidence units.
MomentumTenths == 9
OutlierStep == EvUnit \div 10
EvidenceFloor == 0 - EvUnit
EvidenceCap == 3 * (EvUnit \div 10)
BonusWeightTenths == 11
MatchThreshold == 99 * (EvUnit \div 100)

\* a / b rounded to the nearest integer (b > 0).
RoundDiv(a, b) == (2 * a + b) \div (2 * b)

\* RouteMemory.__init__
NewMemory ==
    [num_points |-> 0, navigation_point |-> None, code_points |-> None,
     code_book |-> None, keys |-> None, values |-> None, evidence |-> None]

\* The arguments of RouteMemory.reset; reset() without arguments is NoArgs.
NoArgs ==
    [n_points |-> 0, code_points |-> None, coordinates |-> None,
     keys |-> None, values |-> None]

\* RouteMemory.reset (with RouteMemory._reset)
reset(a) ==
    [num_points |-> a.n_points,
     navigation_point |-> None,
     code_points |-> a.code_points,
     code_book |-> a.coordinates,
     keys |-> a.keys,
     values |-> a.values,
     evidence |-> IF a.n_points < 1 THEN None
                  ELSE Some(AsSeq([w \in 1..a.n_points |-> 0]))]

\* RouteMemory.is_open
is_open(m) == ~IsNone(m.code_book)

\* self._evidence[self._code_points[mask]] += .1 for one test: the indexed
\* in-place addition is applied once to each waypoint that the mask selects,
\* however many of its images pass.
AddOutlier(ev, codes, mask) ==
    AsSeq([w \in DOMAIN ev |->
        IF \E i \in mask : codes[i] + 1 = w THEN ev[w] + OutlierStep ELSE ev[w]])

\* Outlier evidence: the three tests in turn.
OutlierEvidence(ev, codes, distances) ==
    LET st == outlier_stats(distances)
        e1 == AddOutlier(ev, codes, {i \in DOMAIN distances : BelowStd(distances[i], st)})
        e2 == AddOutlier(e1, codes, {i \in DOMAIN distances : BelowLqr(distances[i], st)})
    IN AddOutlier(e2, codes, {i \in DOMAIN distances : BelowMad(distances[i], st)})

\* Mutant of Momentum: the evidence is not decayed.
NoMomentum(ev) == AsSeq([w \in DOMAIN ev |-> ev[w]])

\* self._evidence *= momentum
Momentum(ev) == AsSeq([w \in DOMAIN ev |-> RoundDiv(ev[w] * MomentumTenths, 10)])

\* Mutant of Clip: the upper bound is not applied.
ClipFloorOnly(ev) == AsSeq([w \in DOMAIN ev |-> Max(EvidenceFloor, ev[w])])

\* np.clip(self._evidence, -1, .30)
Clip(ev) == AsSeq([w \in DOMAIN ev |-> Max(EvidenceFloor, Min(EvidenceCap, ev[w]))])

\* Mutant of CapAndMomentum: the clip is applied before the decay.
CapBeforeMomentum(ev) == Momentum(Clip(ev))

\* Cap and momentum: the decay, then the clip.
CapAndMomentum(ev) == Clip(Momentum(ev))

\* Mutant of Bonus: the weight 1.1 is left out.
BonusUnweighted(d_prob, s_prob) ==
    (d_prob * s_prob * 10 * (EvUnit \div (DistUnit * SelUnit * 10)))

\* d_prob * s_prob * 1.1 in evidence units; d_prob = 1 - _distances[d_iid] in
\* distance units, s_prob in selection units.
Bonus(d_prob, s_prob) ==
    (d_prob * s_prob * BonusWeightTenths * (EvUnit \div (DistUnit * SelUnit * 10)))

\* Mutant of AddBonus: the bonus goes to the waypoint of the image with the
\* largest selection weight.
AddBonusToSelected(ev, codes, distances, selections) ==
    LET d_iid == ArgMin(distances)
        d_prob == DistUnit - distances[d_iid]
        s_prob == selections[ArgMax(selections)]
    IN AsSeq([w \in DOMAIN ev |->
           IF w = codes[ArgMax(selections)] + 1 THEN ev[w] + Bonus(d_prob, s_prob)
           ELSE ev[w]])

\* Evidence from the distance and the selection, added to the nearest image's
\* waypoint after the clip.
AddBonus(ev, codes, distances, selections) ==
    LET d_iid == ArgMin(distances)
        d_prob == DistUnit - distances[d_iid]
        s_prob == selections[ArgMax(selections)]
    IN AsSeq([w \in DOMAIN ev |->
           IF w = codes[d_iid] + 1 THEN ev[w] + Bonus(d_prob, s_prob) ELSE ev[w]])

\* Mutant of DestinationMask: the candidates are the images of the confirmed
\* waypoint itself.
DestinationMaskCurrent(m) ==
    LET codes == Val(m.code_points)
    IN IF IsNone(m.navigation_point) THEN DOMAIN codes
       ELSE {i \in DOMAIN codes : codes[i] = Val(m.navigation_point) % m.num_points}

\* Select the destination: the candidates' mask.
DestinationMask(m) ==
    LET codes == Val(m.code_points)
    IN IF IsNone(m.navigation_point) THEN DOMAIN codes
       ELSE {i \in DOMAIN codes :
                codes[i] = (Val(m.navigation_point) + 1) % m.num_points}

\* np.where(mask, _selections, 0).argmax(), 1-based.
SelectDestination(m, selections) ==
    ArgMax(AsSeq([i \in DOMAIN selections |->
               IF i \in DestinationMask(m) THEN selections[i] ELSE 0]))

\* Mutant of Matches: the evidence cap is taken for the threshold.
MatchesAboveCap(ev) == ev[ArgMax(ev)] > EvidenceCap

\* The point with highest evidence matches when it exceeds the threshold.
Matches(ev) == ev[ArgMax(ev)] > MatchThreshold

\* Mutant of Confidence: the magnitude of the evidence is returned.
ConfidenceMagnitude(ev, codes, image) == Abs(ev[codes[image] + 1])

\* Mutant of Confidence: the evidence is returned as it is.
RawEvidence(ev, codes, image) == ev[codes[image] + 1]

\* max(0, self._evidence[self._code_points[_image]]), _image 1-based.
Confidence(ev, codes, image) == Max(0, ev[codes[image] + 1])

\* Mutant of IsNewMatch: every reported waypoint is taken as new.
IsAnyMatch(ret_match, navigation_point) == ~IsNone(ret_match)

\* _match is not None and self._navigation_point != _match
IsNewMatch(ret_match, navigation_point) ==
    ~IsNone(ret_match) /\ navigation_point # ret_match

\* The lengths a coordinate or a query vector can have, and the length of the
\* coordinate and key vectors stored in the memory (those of the network that
\* extracted them when the route was opened).
Dims == 1..MaxDim
CodeDim == MaxDim

\* np.dot(self._code_book, features.T) and np.matmul(query, self._keys.T), the
\* first two statements of match_d1, raise when the vector passed in has not
\* the length of the stored ones.
ShapeError(f_dim, q_dim) == f_dim # CodeDim \/ q_dim # CodeDim

\* RouteMemory.match_d1 on an open memory with a non-empty corpus.  The result
\* holds the memory after the call, the returned tuple (ret_match, ret_image
\* 0-based, ret_confidence, ret_destination) and the intermediate evidence
\* vectors of the call.
match_d1(m, distances, selections) ==
    LET codes == Val(m.code_points)
        ev_outlier == OutlierEvidence(Val(m.evidence), codes, distances)
        ev_clip == CapAndMomentum(ev_outlier)
        d_iid == ArgMin(distances)
        ev_bonus == AddBonus(ev_clip, codes, distances, selections)
        s_iid == SelectDestination(m, selections)
        p == ArgMax(ev_bonus)
        matched == Matches(ev_bonus)
        ev_final == AsSeq([w \in DOMAIN ev_bonus |->
                        IF matched /\ w = p THEN EvidenceFloor ELSE ev_bonus[w]])
        ret_match == IF matched THEN Some(p - 1) ELSE None
        fresh == IsNewMatch(ret_match, m.navigation_point)
        image == IF fresh THEN d_iid ELSE s_iid
    IN [mem |-> [m EXCEPT !.evidence = Some(ev_final),
                          !.navigation_point = IF fresh THEN ret_match ELSE @],
        ret_match |-> ret_match,
        ret_image |-> image - 1,
        ret_confidence |-> Confidence(ev_final, codes, image),
        ret_destination |-> Some(Val(m.values)[s_iid]),
        ev_outlier |-> ev_outlier,
        ev_clip |-> ev_clip,
        ev_bonus |-> ev_bonus,
        d_iid |-> d_iid - 1,
        s_iid |-> s_iid - 1,
        p |-> p - 1]

\* RouteMemory.match
match(m, distances, selections) == match_d1(m, distances, selections)

----------------------------------------------------------------------------
(* State *)

VARIABLES
    memory,       \* Navigator._memory, the RouteMemory
    calls,        \* number of match calls made on the memory since its last reset
    last,         \* the RouteMemory operation in progress: its inputs and results
    lock,         \* Navigator._lock: Free or the thread that holds it
    quit_event,   \* Navigator._quit_event
    store,        \* Navigator._store, the route data source
    disk,         \* the routes present in the routes directory
    gumbel,       \* Navigator._gumbel, the command carry
    destination,  \* Navigator._destination, the destination carry
    ctl,          \* the control-loop thread: its position, the locals of forward,
                  \* and what the tick before produced
    tasks,        \* the background threads started by _check_state
    ticks,        \* number of forward calls started
    published,    \* the navigation fields of the state published last
    app,          \* the application: its configuration, runner, clock and ipc server
    teleop,       \* the teleop server: current_throttle, stats and what it published
    follow        \* the FollowingController and the frame it handled last

mvars == <<memory, calls, last>>
svars == <<lock, quit_event, store, disk, gumbel, destination, ctl, tasks, ticks, published>>
nvars == <<lock, quit_event, store, disk, gumbel, destination, ctl, tasks, ticks, published,
           app, teleop, follow>>
vars == <<memory, calls, last, lock, quit_event, store, disk, gumbel, destination,
          ctl, tasks, ticks, published, app, teleop, follow>>

----------------------------------------------------------------------------
(* RouteMemory on its own: reset and match called with every input of the    *)
(* bounded sets below.                                                       *)

\* Distances 1 - dot(code_book[i], features) of unit-normalized features, in
\* tenths.
DistValues == {0, 5, 10}

\* The softmax of one call: positive weights, one per image, summing to one.
SelVectors(n) ==
    {s \in [1..n -> 1..SelUnit] : SumSeq(s) = SelUnit}

\* Waypoint ids of a route's images: the route's images in route order, every
\* waypoint 0..n-1 of the route with at least one image.
CodePoints(n) ==
    IF n = 0 THEN {<<>>}
    ELSE {c \in UNION {[1..k -> 0..(n - 1)] : k \in n..MaxImages} :
            /\ \A w \in 0..(n - 1) : \E i \in DOMAIN c : c[i] = w
            /\ \A i \in DOMAIN c : i > 1 => c[i - 1] <= c[i]}

\* The feature triple the network extracts from one image.
Features(image) == [c |-> <<"c", image>>, k |-> <<"k", image>>, v |-> <<"v", image>>]

\* The arguments of reset built from the images of a route with the given
\* waypoint ids.
BuildArgs(n, codes, route) ==
    [n_points |-> n,
     code_points |-> Some(codes),
     coordinates |-> Some(AsSeq([i \in DOMAIN codes |-> Features(<<route, i - 1>>).c])),
     keys |-> Some(AsSeq([i \in DOMAIN codes |-> Features(<<route, i - 1>>).k])),
     values |-> Some(AsSeq([i \in DOMAIN codes |-> Features(<<route, i - 1>>).v]))]

\* No RouteMemory operation is in progress.
Idle == [op |-> "idle"]

\* The lock is not held, or is held by a thread: the control-loop thread or
\* the background thread of a slot.
Free == <<>>
CtlThread == <<"ctl">>
TaskThread(t) == <<"task", t>>

\* Navigator._store before the first restart (None) and after it: the route
\* list read last from the directory and the selected route.
NoStore == [created |-> FALSE, routes |-> {}, selected |-> None]
NewStore == [created |-> TRUE, routes |-> {}, selected |-> None]

\* A thread slot without a thread.
\* (stale: the thread reloads a store that a restart has replaced since.)
NoTask == [kind |-> "none", pc |-> "none", route |-> None, stale |-> FALSE,
           num_points |-> 0, images |-> <<>>, args |-> NoArgs]

\* The locals of forward outside a call.
NoLocals ==
    [route |-> None, l_gumbel |-> None, l_destination |-> None, command |-> None,
     gumbel_out |-> None, acquired |-> FALSE,
     nav_point_id |-> None, nav_image_id |-> None, nav_distance |-> None,
     destination |-> None]

\* The gumbel sample and the destination of the tick that returned last; none
\* before the first tick.
NoPrev == [gumbel_out |-> None, destination |-> None]

\* The section of the configuration files an application reads, as far as it
\* decides the clock: clock.hz holds one of two frequencies, or a text that is
\* not an integer.
ConfigValues ==
    {[ok |-> TRUE, hz |-> 10], [ok |-> TRUE, hz |-> 20], [ok |-> FALSE, hz |-> 0]}

\* TFRunner._process_frequency before the first start, and the default of the
\* option clock.hz.
DefaultHz == 10

\* parse_option('clock.hz', int, 10, _errors, **kwargs): the frequency, and the
\* errors the option adds to the list that internal_start returns.
ClockHz(config) == IF config.ok THEN config.hz ELSE DefaultHz
ConfigErrors(config) == IF config.ok THEN {} ELSE {"clock.hz"}

\* The application after __init__: no configuration started, no start message
\* registered with the ipc server, nothing on the chatter channel.
NewApp ==
    [pc |-> "new", active |-> TRUE, config |-> [ok |-> TRUE, hz |-> 10],
     hash |-> None, frequency |-> DefaultHz, hz |-> None,
     starts |-> 0, latest |-> None, chatter |-> None,
     driver |-> "none", status |-> None]

\* The teleop server at its start: current_throttle = 0, stats = None, and no
\* call of throttle_control yet.
NewTeleop == [current_throttle |-> 0, stats |-> None, last |-> None]

\* FollowingController.__init__ and the start of run, which publishes the
\* controls (0, 0); no frame handled yet.  (frames, empty_frames and
\* clear_frames count the frames handled, the empty frames in a row, and the
\* frames in a row since a person was too close.)
NewFollowing ==
    [pc |-> "idle", no_human_counter |-> 0, clear_path |-> 4,
     current_throttle |-> 0, current_steering |-> 0,
     published |-> [throttle |-> 0, steering |-> 0],
     frames |-> 0, empty_frames |-> 0, clear_frames |-> None, last |-> None]

\* Navigator.__init__ and the application before its first setup.
NavInit ==
    /\ lock = Free
    /\ quit_event = FALSE
    /\ store = NoStore
    /\ disk = {"A"}
    /\ gumbel = None
    /\ destination = None
    /\ ctl = [pc |-> "quit", loc |-> NoLocals, prev |-> NoPrev]
    /\ tasks = [t \in 1..MaxTasks |-> NoTask]
    /\ ticks = 0
    /\ published = None
    /\ app = NewApp
    /\ teleop = NewTeleop
    /\ follow = NewFollowing

MemInit ==
    /\ memory = NewMemory
    /\ calls = 0
    /\ last = Idle
    /\ NavInit

\* memory.reset(...)
MemReset ==
    /\ last = Idle
    /\ \E n \in 0..MaxPoints :
         \E a \in {NoArgs} \cup {BuildArgs(n, c, "r") : c \in CodePoints(n)} :
           /\ memory' = reset(a)
           /\ calls' = 0
           /\ last' = [op |-> "reset", args |-> a]
           /\ UNCHANGED nvars

\* memory.match(features, query) on an open memory
MemMatch ==
    /\ last = Idle
    /\ is_open(memory)
    /\ Len(Val(memory.code_book)) > 0
    /\ calls < MaxCalls
    /\ \E distances \in [1..Len(Val(memory.code_book)) -> DistValues] :
         \E selections \in SelVectors(Len(Val(memory.code_book))) :
           LET out == match(memory, distances, selections)
           IN /\ memory' = out.mem
              /\ calls' = calls + 1
              /\ last' = [op |-> "match", before |-> memory,
                          distances |-> distances, selections |-> selections,
                          out |-> out]
    /\ UNCHANGED nvars

\* memory.match(features, query) on an open memory whose corpus is empty: the
\* dot product of the empty code book with the features raises.
MemMatchEmpty ==
    /\ last = Idle
    /\ is_open(memory)
    /\ Len(Val(memory.code_book)) = 0
    /\ last' = [op |-> "raised", before |-> memory]
    /\ UNCHANGED <<memory, calls>>
    /\ UNCHANGED nvars

\* Mutant of MemMatchMismatch: the outlier evidence is added before the
\* shapes are looked at.
MemMatchMismatchLate ==
    /\ last = Idle
    /\ is_open(memory)
    /\ Len(Val(memory.code_book)) > 0
    /\ \E f_dim \in Dims, q_dim \in Dims :
         /\ ShapeError(f_dim, q_dim)
         /\ last' = [op |-> "raised", before |-> memory, f_dim |-> f_dim, q_dim |-> q_dim]
    /\ memory' = [memory EXCEPT !.evidence =
                     Some(AddOutlier(Val(@), Val(memory.code_points),
                                     DOMAIN Val(memory.code_points)))]
    /\ UNCHANGED calls
    /\ UNCHANGED nvars

\* memory.match(features, query) with a coordinate or a query vector of another
\* length than the stored ones: the call raises in its first two statements,
\* before it has written anything.
MemMatchMismatch ==
    /\ last = Idle
    /\ is_open(memory)
    /\ Len(Val(memory.code_book)) > 0
    /\ \E f_dim \in Dims, q_dim \in Dims :
         /\ ShapeError(f_dim, q_dim)
         /\ last' = [op |-> "raised", before |-> memory, f_dim |-> f_dim, q_dim |-> q_dim]
    /\ UNCHANGED <<memory, calls>>
    /\ UNCHANGED nvars

\* The operation returns to its caller.
MemReturn ==
    /\ last # Idle
    /\ last' = Idle
    /\ UNCHANGED <<memory, calls>>
    /\ UNCHANGED nvars

MemNext == MemReset \/ MemMatch \/ MemMatchEmpty \/ MemMatchMismatch \/ MemReturn

MemSpec == MemInit /\ [][MemNext]_vars

----------------------------------------------------------------------------
(* RouteMemory over a longer run of match calls, one per tick, on few        *)
(* corpora and few network outputs.                                          *)

\* The corpora: the waypoint ids of every route of up to MaxImages images, and
\* a one-waypoint route of MaxImages + 1 images.
SeqCorpora ==
    UNION {CodePoints(n) : n \in 1..MaxPoints}
        \cup {AsSeq([i \in 1..(MaxImages + 1) |-> 0])}

\* The distances and selections of one tick against a corpus of n images: the
\* first or the last image is the nearest, at distance 0 or .5, the others are
\* at distance 1; the attention is all on the first image, all on the last, or
\* half on each (a weight 0 is a softmax term that underflows).
SeqInputs(n) ==
    {[distances |-> AsSeq([i \in 1..n |-> IF i = near THEN d ELSE DistUnit]),
      selections |-> AsSeq([i \in 1..n |->
                        (IF i = 1 THEN k ELSE 0) + (IF i = n THEN SelUnit - k ELSE 0)])] :
        near \in {1, n}, d \in {0, DistUnit \div 2}, k \in {0, SelUnit \div 2, SelUnit}}

\* memory.reset(...) with the arrays of one of the corpora
SeqReset ==
    /\ last = Idle
    /\ \E c \in SeqCorpora :
         LET a == BuildArgs(Cardinality(Range(c)), c, "r")
         IN /\ memory' = reset(a)
            /\ calls' = 0
            /\ last' = [op |-> "reset", args |-> a]
    /\ UNCHANGED nvars

\* memory.match(features, query), one more tick
SeqMatch ==
    /\ last = Idle
    /\ is_open(memory)
    /\ calls < MaxCalls + 1
    /\ \E in \in SeqInputs(Len(Val(memory.code_book))) :
         LET out == match(memory, in.distances, in.selections)
         IN /\ memory' = out.mem
            /\ calls' = calls + 1
            /\ last' = [op |-> "match", before |-> memory,
                        distances |-> in.distances, selections |-> in.selections,
                        out |-> out]
    /\ UNCHANGED nvars

SeqNext == SeqReset \/ SeqMatch \/ MemReturn

SeqSpec == MemInit /\ [][SeqNext]_vars

----------------------------------------------------------------------------
(* The route data source (byodr.utils.navigate), as far as Navigator uses it *)

\* The routes that can be requested and the waypoint id of each image of a
\* route, in route order.
RouteNames == {"A", "B"}
RouteCodes(r) == IF r = "A" THEN <<0, 1>> ELSE <<0>>

\* store.load_routes()
store_load_routes(st, d) == [st EXCEPT !.routes = d]
\* store.list_routes()
store_list_routes(st) == st.routes
\* store.get_selected_route()
store_get_selected_route(st) == st.selected
\* store.open(route)
store_open(st, route) ==
    [st EXCEPT !.selected = IF route \in st.routes THEN Some(route) ELSE None]
\* store.close()
store_close(st) == [st EXCEPT !.selected = None]
\* store.is_open()
store_is_open(st) == ~IsNone(st.selected)
\* store.list_all_images()
store_list_all_images(st) ==
    IF IsNone(st.selected) THEN <<>>
    ELSE AsSeq([i \in DOMAIN RouteCodes(Val(st.selected)) |-> <<Val(st.selected), i - 1>>])
\* len(store): the number of navigation points of the selected route
store_len(st) ==
    IF IsNone(st.selected) THEN 0
    ELSE Cardinality(Range(RouteCodes(Val(st.selected))))

----------------------------------------------------------------------------
(* Navigator and the control loop *)

TaskIds == 1..MaxTasks

FreeSlots == {t \in TaskIds : tasks[t].kind = "none"}
\* A new thread takes the first free slot.
NewSlot == CHOOSE t \in FreeSlots : \A u \in FreeSlots : t <= u

Goto(pc) == [ctl EXCEPT !.pc = pc]

\* TFRunner.internal_quit -> Navigator.quit, run by a (re)start before
\* internal_start.
InternalQuit ==
    /\ ctl.pc = "quit"
    /\ quit_event' = TRUE
    /\ ctl' = Goto("clear")
    /\ UNCHANGED <<memory, calls, last, lock, store, disk, gumbel, destination,
                   tasks, ticks, published, app,
                   teleop, follow>>

\* Navigator.restart: self._quit_event.clear(), then the thread stands at
\* "with self._lock".
RestartClear ==
    /\ ctl.pc = "clear"
    /\ quit_event' = FALSE
    /\ ctl' = Goto("restart_lock")
    /\ UNCHANGED <<memory, calls, last, lock, store, disk, gumbel, destination,
                   tasks, ticks, published, app,
                   teleop, follow>>

\* Navigator.restart: "with self._lock" is a blocking acquire.
RestartAcquire ==
    /\ ctl.pc = "restart_lock"
    /\ lock = Free
    /\ lock' = CtlThread
    /\ ctl' = Goto("restart_body")
    /\ UNCHANGED <<memory, calls, last, quit_event, store, disk, gumbel, destination,
                   tasks, ticks, published, app,
                   teleop, follow>>

\* Navigator.restart: the body under the lock, and the release.
RestartBody ==
    /\ ctl.pc = "restart_body"
    /\ store' = store_load_routes(NewStore, disk)
    /\ tasks' = [t \in DOMAIN tasks |->
                   IF tasks[t].kind = "reload" THEN [tasks[t] EXCEPT !.stale = TRUE]
                   ELSE tasks[t]]
    /\ memory' = reset(NoArgs)
    /\ calls' = 0
    /\ gumbel' = None
    /\ destination' = None
    /\ lock' = Free
    /\ ctl' = Goto("tick")
    /\ UNCHANGED <<last, quit_event, disk, ticks, published, app,
                   teleop, follow>>

\* Navigator._check_state(None): self._store.close()
CheckStateClose ==
    /\ ctl.pc = "tick"
    /\ ticks < MaxTicks
    /\ store' = store_close(store)
    /\ ctl' = [ctl EXCEPT !.pc = "rd_gumbel", !.loc = [NoLocals EXCEPT !.route = None]]
    /\ ticks' = ticks + 1
    /\ UNCHANGED <<memory, calls, last, lock, quit_event, disk, gumbel, destination,
                   tasks, published, app,
                   teleop, follow>>

\* Navigator._check_state(route), route not in the route list: a thread is
\* started that reloads the list.
CheckStateReload ==
    /\ ctl.pc = "tick"
    /\ ticks < MaxTicks
    /\ FreeSlots # {}
    /\ \E route \in RouteNames :
         /\ route \notin store_list_routes(store)
         /\ tasks' = [tasks EXCEPT ![NewSlot] =
                        [NoTask EXCEPT !.kind = "reload", !.pc = "run"]]
         /\ ctl' = [ctl EXCEPT !.pc = "rd_gumbel",
                               !.loc = [NoLocals EXCEPT !.route = Some(route)]]
    /\ ticks' = ticks + 1
    /\ UNCHANGED <<memory, calls, last, lock, quit_event, store, disk, gumbel,
                   destination, published, app,
                   teleop, follow>>

\* Navigator._check_state(route), route listed and not the selected route: a
\* thread is started that runs _route_open(route).
CheckStateOpen ==
    /\ ctl.pc = "tick"
    /\ ticks < MaxTicks
    /\ FreeSlots # {}
    /\ \E route \in RouteNames :
         /\ route \in store_list_routes(store)
         /\ Some(route) # store_get_selected_route(store)
         /\ tasks' = [tasks EXCEPT ![NewSlot] =
                        [NoTask EXCEPT !.kind = "open", !.pc = "start", !.route = Some(route)]]
         /\ ctl' = [ctl EXCEPT !.pc = "rd_gumbel",
                               !.loc = [NoLocals EXCEPT !.route = Some(route)]]
    /\ ticks' = ticks + 1
    /\ UNCHANGED <<memory, calls, last, lock, quit_event, store, disk, gumbel,
                   destination, published, app,
                   teleop, follow>>

\* Navigator._check_state(route), route is the selected route: nothing to do.
CheckStateSame ==
    /\ ctl.pc = "tick"
    /\ ticks < MaxTicks
    /\ \E route \in RouteNames :
         /\ route \in store_list_routes(store)
         /\ Some(route) = store_get_selected_route(store)
         /\ ctl' = [ctl EXCEPT !.pc = "rd_gumbel",
                               !.loc = [NoLocals EXCEPT !.route = Some(route)]]
    /\ ticks' = ticks + 1
    /\ UNCHANGED <<memory, calls, last, lock, quit_event, store, disk, gumbel,
                   destination, tasks, published, app,
                   teleop, follow>>

\* maneuver_intention(intention), the command derived from the intention.
IntentionCommand == <<"intention">>

\* Navigator.forward: _gumbel = self._gumbel
ForwardReadGumbel ==
    /\ ctl.pc = "rd_gumbel"
    /\ ctl' = [ctl EXCEPT !.pc = "rd_destination", !.loc.l_gumbel = gumbel]
    /\ UNCHANGED <<memory, calls, last, lock, quit_event, store, disk, gumbel,
                   destination, tasks, ticks, published, app,
                   teleop, follow>>

\* Navigator.forward: _destination = self._destination, the command, and the
\* call of the network, which returns this tick's gumbel sample.
ForwardNetwork ==
    /\ ctl.pc = "rd_destination"
    /\ ctl' = [ctl EXCEPT !.pc = "acquire",
                          !.loc.l_destination = destination,
                          !.loc.command = IF IsNone(ctl.loc.l_gumbel)
                                          THEN Some(IntentionCommand)
                                          ELSE ctl.loc.l_gumbel,
                          !.loc.gumbel_out = Some(<<"gumbel", ticks>>)]
    /\ UNCHANGED <<memory, calls, last, lock, quit_event, store, disk, gumbel,
                   destination, tasks, ticks, published, app,
                   teleop, follow>>

\* self._lock.acquire(False): the lock is taken when it is free.
TryAcquire(holder) == IF lock = Free THEN holder ELSE lock

\* Mutant of ForwardTryAcquire: forward goes on to the matching whether or not
\* it obtained the lock.
ForwardAcquireUnchecked ==
    /\ ctl.pc = "acquire"
    /\ lock' = TryAcquire(CtlThread)
    /\ ctl' = [ctl EXCEPT !.pc = "locked", !.loc.acquired = (lock' = CtlThread)]
    /\ UNCHANGED <<memory, calls, last, quit_event, store, disk, gumbel,
                   destination, tasks, ticks, published, app,
                   teleop, follow>>

\* Mutant of ForwardTryAcquire: the lock is acquired with a blocking call.
ForwardBlockingAcquire ==
    /\ ctl.pc = "acquire"
    /\ lock = Free
    /\ lock' = CtlThread
    /\ ctl' = [ctl EXCEPT !.pc = "locked", !.loc.acquired = TRUE]
    /\ UNCHANGED <<memory, calls, last, quit_event, store, disk, gumbel,
                   destination, tasks, ticks, published, app,
                   teleop, follow>>

\* Navigator.forward: _acquired = self._lock.acquire(False)
ForwardTryAcquire ==
    /\ ctl.pc = "acquire"
    /\ lock' = TryAcquire(CtlThread)
    /\ ctl' = [ctl EXCEPT !.pc = IF lock' = CtlThread THEN "locked" ELSE "wr_gumbel",
                          !.loc.acquired = (lock' = CtlThread)]
    /\ UNCHANGED <<memory, calls, last, quit_event, store, disk, gumbel,
                   destination, tasks, ticks, published, app,
                   teleop, follow>>

\* The distances and selections that the outputs of one network call give
\* against a corpus of n images: the frame is at one of the given distances
\* from the first image and shows no other place of the route, and the
\* attention prefers the last image.
NetworkOutputsAt(n, near) ==
    {[distances |-> AsSeq([i \in 1..n |-> IF i = 1 THEN d ELSE DistUnit]),
      selections |-> AsSeq([i \in 1..n |-> IF i = n THEN SelUnit - (n - 1) ELSE 1])] :
        d \in near}

\* The frame shows the place of the first image or no place of the route.
NetworkOutputs(n) == NetworkOutputsAt(n, {0, DistUnit})

\* The condition under which forward calls match.
MatchWanted == store_is_open(store) /\ is_open(memory)

\* Navigator.forward with the lock: match is called with a coordinate vector
\* that has not the length of the stored ones (the network is not part of this
\* code and returns what it returns) and raises; "finally" releases the lock,
\* and the exception leaves forward and step, no state being published.
ForwardMatchRaises ==
    /\ ctl.pc = "locked"
    /\ MatchWanted
    /\ Len(Val(memory.code_book)) > 0
    /\ \E f_dim \in Dims :
         /\ ShapeError(f_dim, CodeDim)
         /\ last' = [op |-> "raised", before |-> memory,
                     f_dim |-> f_dim, q_dim |-> CodeDim]
    /\ lock' = Free
    /\ ctl' = Goto("failed")
    /\ UNCHANGED <<memory, calls, quit_event, store, disk, gumbel, destination,
                   tasks, ticks, published, app,
                   teleop, follow>>

\* Navigator.forward with the lock: store and memory are open, match is called,
\* and the lock is released.  On an empty corpus match raises: the lock is
\* released and the exception leaves forward.  The frames are at the given
\* distances from the first image of the route.
ForwardMatchAt(near) ==
    /\ ctl.pc = "locked"
    /\ MatchWanted
    /\ lock' = Free
    /\ IF Len(Val(memory.code_book)) = 0
       THEN /\ ctl' = Goto("failed")
            /\ last' = [op |-> "raised", before |-> memory]
            /\ UNCHANGED <<memory, calls>>
       ELSE \E in \in NetworkOutputsAt(Len(Val(memory.code_book)), near) :
                LET out == match(memory, in.distances, in.selections)
                IN /\ memory' = out.mem
                   /\ calls' = calls + 1
                   /\ last' = [op |-> "match", before |-> memory,
                               distances |-> in.distances, selections |-> in.selections,
                               out |-> out]
                   /\ ctl' = [ctl EXCEPT !.pc = "wr_gumbel",
                                         !.loc.nav_point_id = out.ret_match,
                                         !.loc.nav_image_id = Some(out.ret_image),
                                         !.loc.nav_distance = Some(out.ret_confidence),
                                         !.loc.destination = out.ret_destination]
    /\ UNCHANGED <<quit_event, store, disk, gumbel, destination, tasks, ticks, published,
                   app,
                   teleop, follow>>

ForwardMatch == ForwardMatchAt({0, DistUnit})

\* Navigator.forward with the lock: store or memory is not open, matching is
\* skipped, and the lock is released.
ForwardSkipMatch ==
    /\ ctl.pc = "locked"
    /\ ~MatchWanted
    /\ lock' = Free
    /\ ctl' = Goto("wr_gumbel")
    /\ UNCHANGED <<memory, calls, last, quit_event, store, disk, gumbel, destination,
                   tasks, ticks, published, app,
                   teleop, follow>>

\* Mutant of ForwardWriteGumbel: the command carry is cleared by every tick.
ForwardWriteGumbelNever ==
    /\ ctl.pc = "wr_gumbel"
    /\ gumbel' = None
    /\ ctl' = Goto("wr_destination")
    /\ UNCHANGED <<memory, calls, last, lock, quit_event, store, disk, destination,
                   tasks, ticks, published, app,
                   teleop, follow>>

\* Mutant of ForwardWriteGumbel: the gumbel sample is stored whether or not the
\* tick produced a destination.
ForwardWriteGumbelAlways ==
    /\ ctl.pc = "wr_gumbel"
    /\ gumbel' = ctl.loc.gumbel_out
    /\ ctl' = Goto("wr_destination")
    /\ UNCHANGED <<memory, calls, last, lock, quit_event, store, disk, destination,
                   tasks, ticks, published, app,
                   teleop, follow>>

\* Navigator.forward: self._gumbel = None if _destination is None else gumbel_out
ForwardWriteGumbel ==
    /\ ctl.pc = "wr_gumbel"
    /\ gumbel' = IF IsNone(ctl.loc.destination) THEN None ELSE ctl.loc.gumbel_out
    /\ ctl' = Goto("wr_destination")
    /\ UNCHANGED <<memory, calls, last, lock, quit_event, store, disk, destination,
                   tasks, ticks, published, app,
                   teleop, follow>>

\* TFRunner.forward: the navigation fields of the published state.
Publish(loc) ==
    [navigation_point |-> IF IsNone(loc.nav_point_id) THEN -1 ELSE Val(loc.nav_point_id),
     navigation_image |-> IF IsNone(loc.nav_image_id) THEN -1 ELSE Val(loc.nav_image_id),
     navigation_distance |-> IF IsNone(loc.nav_distance) THEN EvUnit ELSE Val(loc.nav_distance)]

\* Navigator.forward: self._destination = _destination and the return;
\* TFRunner.forward and InferenceApplication.step publish the state.
ForwardReturn ==
    /\ ctl.pc = "wr_destination"
    /\ destination' = ctl.loc.destination
    /\ published' = Some(Publish(ctl.loc))
    /\ last' = Idle
    /\ ctl' = [ctl EXCEPT !.pc = "chat",
                          !.prev = [gumbel_out |-> ctl.loc.gumbel_out,
                                    destination |-> ctl.loc.destination]]
    /\ UNCHANGED <<memory, calls, lock, quit_event, store, disk, gumbel, tasks, ticks,
                   app,
                   teleop, follow>>

\* InferenceApplication.step: no restart command on the chatter channel.
ChatNone ==
    /\ ctl.pc = "chat"
    /\ ctl' = [ctl EXCEPT !.pc = "tick", !.loc = NoLocals]
    /\ UNCHANGED <<memory, calls, last, lock, quit_event, store, disk, gumbel,
                   destination, tasks, ticks, published, app,
                   teleop, follow>>

\* InferenceApplication.step: a restart command; setup restarts the runner.
ChatRestart ==
    /\ ctl.pc = "chat"
    /\ ctl' = [ctl EXCEPT !.pc = "quit", !.loc = NoLocals]
    /\ UNCHANGED <<memory, calls, last, lock, quit_event, store, disk, gumbel,
                   destination, tasks, ticks, published, app,
                   teleop, follow>>

----------------------------------------------------------------------------
(* Background threads *)

TaskAt(t, kind, pc) == tasks[t].kind = kind /\ tasks[t].pc = pc
TaskGoto(t, pc) == [tasks EXCEPT ![t].pc = pc]
TaskEnds(t) == [tasks EXCEPT ![t] = NoTask]

\* threading.Thread(target=self._store.load_routes): the list of the store the
\* thread was started on is reloaded.
ReloadRun(t) ==
    /\ TaskAt(t, "reload", "run")
    /\ store' = IF tasks[t].stale THEN store ELSE store_load_routes(store, disk)
    /\ tasks' = TaskEnds(t)
    /\ UNCHANGED <<memory, calls, last, lock, quit_event, disk, gumbel, destination,
                   ctl, ticks, published, app,
                   teleop, follow>>

\* _route_open: if not self._quit_event.is_set()
OpenStart(t) ==
    /\ TaskAt(t, "open", "start")
    /\ tasks' = IF quit_event THEN TaskEnds(t) ELSE TaskGoto(t, "lock")
    /\ UNCHANGED <<memory, calls, last, lock, quit_event, store, disk, gumbel,
                   destination, ctl, ticks, published, app,
                   teleop, follow>>

\* Mutant of OpenLock: the route is rebuilt without taking the lock.
OpenWithoutLock(t) ==
    /\ TaskAt(t, "open", "lock")
    /\ tasks' = TaskGoto(t, "check")
    /\ UNCHANGED <<memory, calls, last, lock, quit_event, store, disk, gumbel,
                   destination, ctl, ticks, published, app,
                   teleop, follow>>

\* _route_open: with self._lock
OpenLock(t) ==
    /\ TaskAt(t, "open", "lock")
    /\ lock = Free
    /\ lock' = TaskThread(t)
    /\ tasks' = TaskGoto(t, "check")
    /\ UNCHANGED <<memory, calls, last, quit_event, store, disk, gumbel, destination,
                   ctl, ticks, published, app,
                   teleop, follow>>

\* Mutant of RouteDiffers: the route is rebuilt whatever the store has selected.
RouteAlwaysDiffers(route, st) == TRUE

\* _route_open: if route != self._store.get_selected_route()
RouteDiffers(route, st) == route # store_get_selected_route(st)

\* _route_open: the route check, and self._memory.reset() when the route
\* differs; otherwise the lock is released and the thread ends.
OpenCheck(t) ==
    /\ TaskAt(t, "open", "check")
    /\ IF RouteDiffers(tasks[t].route, store)
       THEN /\ memory' = reset(NoArgs)
            /\ calls' = 0
            /\ tasks' = TaskGoto(t, "clear_gumbel")
            /\ lock' = lock
       ELSE /\ tasks' = TaskEnds(t)
            /\ lock' = Free
            /\ UNCHANGED <<memory, calls>>
    /\ UNCHANGED <<last, quit_event, store, disk, gumbel, destination, ctl, ticks,
                   published, app,
                   teleop, follow>>

\* _route_open: self._gumbel = None
OpenClearGumbel(t) ==
    /\ TaskAt(t, "open", "clear_gumbel")
    /\ gumbel' = None
    /\ tasks' = TaskGoto(t, "clear_destination")
    /\ UNCHANGED <<memory, calls, last, lock, quit_event, store, disk, destination,
                   ctl, ticks, published, app,
                   teleop, follow>>

\* _route_open: self._destination = None
OpenClearDestination(t) ==
    /\ TaskAt(t, "open", "clear_destination")
    /\ destination' = None
    /\ tasks' = TaskGoto(t, "open")
    /\ UNCHANGED <<memory, calls, last, lock, quit_event, store, disk, gumbel,
                   ctl, ticks, published, app,
                   teleop, follow>>

\* _route_open: self._store.open(route)
OpenStore(t) ==
    /\ TaskAt(t, "open", "open")
    /\ store' = store_open(store, Val(tasks[t].route))
    /\ tasks' = TaskGoto(t, "len")
    /\ UNCHANGED <<memory, calls, last, lock, quit_event, disk, gumbel, destination,
                   ctl, ticks, published, app,
                   teleop, follow>>

\* _route_open: num_points = len(self._store); without points the lock is
\* released and the thread ends.
OpenLen(t) ==
    /\ TaskAt(t, "open", "len")
    /\ IF store_len(store) > 0
       THEN /\ tasks' = [tasks EXCEPT ![t].pc = "images", ![t].num_points = store_len(store)]
            /\ lock' = lock
       ELSE /\ tasks' = TaskEnds(t)
            /\ lock' = Free
    /\ UNCHANGED <<memory, calls, last, quit_event, store, disk, gumbel, destination,
                   ctl, ticks, published, app,
                   teleop, follow>>

\* _route_open: _images = self._store.list_all_images()
OpenImages(t) ==
    /\ TaskAt(t, "open", "images")
    /\ tasks' = [tasks EXCEPT ![t].pc = "build", ![t].images = store_list_all_images(store)]
    /\ UNCHANGED <<memory, calls, last, lock, quit_event, store, disk, gumbel,
                   destination, ctl, ticks, published, app,
                   teleop, follow>>

\* The loop of _route_open can read the waypoint id of every image: the store
\* still has the images' route selected (after a close the lookup raises).
CanReadCodes(t) == tasks[t].images = <<>> \/ store_list_all_images(store) = tasks[t].images

\* The arrays the loop of _route_open builds.
BuiltArgs(t) ==
    LET images == tasks[t].images
    IN [n_points |-> tasks[t].num_points,
        code_points |-> Some(AsSeq([i \in DOMAIN images |-> RouteCodes(images[i][1])[i]])),
        coordinates |-> Some(AsSeq([i \in DOMAIN images |-> Features(images[i]).c])),
        keys |-> Some(AsSeq([i \in DOMAIN images |-> Features(images[i]).k])),
        values |-> Some(AsSeq([i \in DOMAIN images |-> Features(images[i]).v]))]

\* _route_open: the loop over the images, every lookup and feature extraction
\* succeeding.
OpenBuild(t) ==
    /\ TaskAt(t, "open", "build")
    /\ CanReadCodes(t)
    /\ tasks' = [tasks EXCEPT ![t].pc = "commit", ![t].args = BuiltArgs(t)]
    /\ UNCHANGED <<memory, calls, last, lock, quit_event, store, disk, gumbel,
                   destination, ctl, ticks, published, app,
                   teleop, follow>>

\* _route_open: a lookup or a feature extraction raises inside the loop; the
\* with statement releases the lock and the thread ends.
OpenBuildFails(t) ==
    /\ TaskAt(t, "open", "build")
    /\ tasks[t].images # <<>>
    /\ tasks' = TaskEnds(t)
    /\ lock' = Free
    /\ UNCHANGED <<memory, calls, last, quit_event, store, disk, gumbel, destination,
                   ctl, ticks, published, app,
                   teleop, follow>>

\* Mutant of OpenCommit: the arrays built are dropped.
OpenCommitDropped(t) ==
    /\ TaskAt(t, "open", "commit")
    /\ tasks' = TaskEnds(t)
    /\ lock' = Free
    /\ UNCHANGED <<memory, calls, last, quit_event, store, disk, gumbel, destination,
                   ctl, ticks, published, app,
                   teleop, follow>>

\* _route_open: self._memory.reset(num_points, _codes, _coordinates, _keys,
\* _values), and the release of the lock.
OpenCommit(t) ==
    /\ TaskAt(t, "open", "commit")
    /\ memory' = reset(tasks[t].args)
    /\ calls' = 0
    /\ tasks' = TaskEnds(t)
    /\ lock' = Free
    /\ UNCHANGED <<last, quit_event, store, disk, gumbel, destination, ctl, ticks,
                   published, app,
                   teleop, follow>>

\* A route directory is copied into the routes directory.
RouteAdded ==
    /\ \E r \in RouteNames \ disk : disk' = disk \cup {r}
    /\ UNCHANGED <<memory, calls, last, lock, quit_event, store, gumbel, destination,
                   ctl, tasks, ticks, published, app,
                   teleop, follow>>

----------------------------------------------------------------------------
(* The inference application: the control loop and its background threads *)

Init ==
    /\ memory = NewMemory
    /\ calls = 0
    /\ last = Idle
    /\ NavInit

Next ==
    \/ InternalQuit \/ RestartClear \/ RestartAcquire \/ RestartBody
    \/ CheckStateClose \/ CheckStateReload \/ CheckStateOpen \/ CheckStateSame
    \/ ForwardReadGumbel \/ ForwardNetwork \/ ForwardTryAcquire
    \/ ForwardMatch \/ ForwardMatchRaises \/ ForwardSkipMatch
    \/ ForwardWriteGumbel \/ ForwardReturn
    \/ ChatNone \/ ChatRestart
    \/ RouteAdded
    \/ \E t \in TaskIds :
         \/ ReloadRun(t) \/ OpenStart(t) \/ OpenLock(t) \/ OpenCheck(t)
         \/ OpenClearGumbel(t) \/ OpenClearDestination(t) \/ OpenStore(t)
         \/ OpenLen(t) \/ OpenImages(t) \/ OpenBuild(t) \/ OpenBuildFails(t)
         \/ OpenCommit(t)

Spec == Init /\ [][Next]_vars

----------------------------------------------------------------------------
(* The service in steady operation: the control loop ticks for ever, no      *)
(* rebuild or match fails and no restart command arrives; the threads are    *)
(* scheduled fairly.  The vehicle stays away from the places of the routes,  *)
(* and the routes directory holds every route from the start.                *)

LiveInit ==
    /\ memory = NewMemory
    /\ calls = 0
    /\ last = Idle
    /\ lock = Free
    /\ quit_event = FALSE
    /\ store = NoStore
    /\ disk = RouteNames
    /\ gumbel = None
    /\ destination = None
    /\ ctl = [pc |-> "quit", loc |-> NoLocals, prev |-> NoPrev]
    /\ tasks = [t \in 1..MaxTasks |-> NoTask]
    /\ ticks = 0
    /\ published = None
    /\ app = NewApp
    /\ teleop = NewTeleop
    /\ follow = NewFollowing

\* The loop goes on after MaxTicks ticks: the counts of ticks and of match
\* calls, which only label the ticks, are taken back.
TickGoesOn ==
    /\ ctl.pc = "tick"
    /\ ticks = MaxTicks
    /\ ticks' = MaxTicks - 1
    /\ calls' = Min(calls, MaxCalls)
    /\ UNCHANGED <<memory, last, lock, quit_event, store, disk, gumbel,
                   destination, ctl, tasks, published, app,
                   teleop, follow>>

\* forward matches against frames that show no place of the route.
LiveForwardMatch == ForwardMatchAt({DistUnit})

\* The steps of the control-loop thread outside the lock.
LiveCtlSteps ==
    \/ InternalQuit \/ RestartClear \/ RestartAcquire \/ RestartBody
    \/ CheckStateClose \/ CheckStateOpen \/ CheckStateSame
    \/ ForwardReadGumbel \/ ForwardNetwork \/ ForwardTryAcquire
    \/ ForwardWriteGumbel \/ ForwardReturn
    \/ ChatNone \/ TickGoesOn

\* The steps of the background thread in slot t.
LiveTask(t) ==
    \/ OpenStart(t) \/ OpenLock(t) \/ OpenCheck(t)
    \/ OpenClearGumbel(t) \/ OpenClearDestination(t) \/ OpenStore(t)
    \/ OpenLen(t) \/ OpenImages(t) \/ OpenBuild(t) \/ OpenCommit(t)

LiveNext ==
    \/ LiveCtlSteps \/ LiveForwardMatch \/ ForwardSkipMatch
    \/ \E t \in TaskIds : LiveTask(t)

\* The step of forward under the lock, told by the "finally" that releases it:
\* the match, or the skipped match.
ForwardUnlocks == ctl.pc = "locked" /\ lock' = Free

\* The control loop keeps running, under the lock as outside it, and every
\* background thread goes on whenever it can, the acquisition of the lock
\* included.
LiveSpec ==
    /\ LiveInit
    /\ [][LiveNext]_vars
    /\ WF_vars(LiveCtlSteps)
    /\ WF_lock(ForwardUnlocks)
    /\ \A t \in TaskIds : SF_vars(LiveTask(t))

----------------------------------------------------------------------------
(* The application around the runner: setup, step and the restart command    *)

\* Configurable.restart: the runner is restarted when the configuration read
\* differs from the one it was started with.
Reconfigured(a) == a.hash # Some(a.config)

\* Mutant of setup: the start is registered, the clock is left as it was.
setup_without_clock(a) ==
    IF a.active /\ Reconfigured(a)
    THEN [a EXCEPT !.hash = Some(a.config),
                   !.starts = @ + 1,
                   !.latest = Some(ConfigErrors(a.config))]
    ELSE a

\* InferenceApplication.setup (RoverApplication.setup has the same shape):
\* when the application is active and the runner restarted, the runner's
\* errors are registered as a start message and the clock is set to the
\* runner's frequency.
setup(a) ==
    IF a.active /\ Reconfigured(a)
    THEN [a EXCEPT !.hash = Some(a.config),
                   !.frequency = ClockHz(a.config),
                   !.starts = @ + 1,
                   !.latest = Some(ConfigErrors(a.config)),
                   !.hz = Some(ClockHz(a.config))]
    ELSE a

\* The first setup, before the loop of steps.
AppSetup ==
    /\ app.pc = "new"
    /\ app' = [setup(app) EXCEPT !.pc = "step"]
    /\ UNCHANGED <<mvars, svars, teleop, follow>>

\* A configuration file is written with another value of clock.hz.
ConfigWritten ==
    /\ app.starts < MaxStarts
    /\ \E c \in ConfigValues \ {app.config} : app' = [app EXCEPT !.config = c]
    /\ UNCHANGED <<mvars, svars, teleop, follow>>

\* A message arrives on the chatter channel.
ChatterAdd ==
    /\ IsNone(app.chatter)
    /\ \E command \in {"restart", "other"} :
          app' = [app EXCEPT !.chatter = Some(command)]
    /\ UNCHANGED <<mvars, svars, teleop, follow>>

\* The quit event of the application is set.
AppQuit ==
    /\ app.active
    /\ app' = [app EXCEPT !.active = FALSE]
    /\ UNCHANGED <<mvars, svars, teleop, follow>>

\* step(), first part: the inputs are read and the state is published.  In
\* the pilot a teleop message with button_b set selects the direct driver,
\* and the published status names the driver.
AppStepPublish ==
    /\ app.pc = "step"
    /\ app.active
    /\ \E button_b \in BOOLEAN :
          LET driver == IF button_b THEN "direct" ELSE app.driver
          IN app' = [app EXCEPT !.pc = "chat", !.driver = driver,
                                !.status = Some(driver)]
    /\ UNCHANGED <<mvars, svars, teleop, follow>>

\* step(), second part: chat = self.ipc_chatter() takes the message off the
\* channel; a restart command calls setup().
AppStepChat ==
    /\ app.pc = "chat"
    /\ LET popped == [app EXCEPT !.pc = "step", !.chatter = None]
       IN app' = IF app.chatter = Some("restart") THEN setup(popped) ELSE popped
    /\ UNCHANGED <<mvars, svars, teleop, follow>>

AppNext ==
    AppSetup \/ ConfigWritten \/ ChatterAdd \/ AppQuit \/ AppStepPublish \/ AppStepChat

AppSpec == Init /\ [][AppNext]_vars

----------------------------------------------------------------------------
(* The teleop server: throttle_control, called with each command of the user *)
(* interface, and the switch of the following mode                           *)
(* (src/teleop/teleop/app.py).  Throttle values are counted in twentieths.   *)

\* 1.0 of throttle.
ThrottleUnit == 20
\* throttle_change_step = 0.1
ThrottleStep == ThrottleUnit \div 10

\* The commands of the user interface: whether mobileInferenceState is "true",
\* "auto" or "train", whether the key "throttle" is there, the first key of the
\* dictionary, and float(cmd.get("throttle")).
Commands ==
    {c \in [inference : BOOLEAN, has_throttle : BOOLEAN,
            first_key : {"steering", "throttle"}, throttle : -MaxTarget..MaxTarget] :
        ~c.has_throttle => (c.first_key = "steering" /\ c.throttle = 0)}

\* throttle_control, first key "steering": one step towards 0, capped at 0
\* when the throttle was not negative.
Brake(current_throttle) ==
    LET braking_sign == IF current_throttle < 0 THEN -1 ELSE 1
        moved == current_throttle - braking_sign * ThrottleStep
    IN IF braking_sign > 0 /\ moved < 0 THEN 0 ELSE moved

\* Mutant of Accelerate: the step is taken, the cap at the target is left out.
AccelerateUncapped(current_throttle, target_throttle) ==
    LET accelerate_sign == IF target_throttle < current_throttle THEN -1
                           ELSE IF target_throttle > current_throttle THEN 1 ELSE 0
    IN current_throttle + accelerate_sign * ThrottleStep

\* throttle_control, first key "throttle": one step towards the target, capped
\* at the target.
Accelerate(current_throttle, target_throttle) ==
    LET accelerate_sign == IF target_throttle < current_throttle THEN -1
                           ELSE IF target_throttle > current_throttle THEN 1 ELSE 0
        moved == current_throttle + accelerate_sign * ThrottleStep
    IN IF \/ accelerate_sign > 0 /\ moved > target_throttle
          \/ accelerate_sign < 0 /\ moved < target_throttle
       THEN target_throttle ELSE moved

\* throttle_control(cmd): the new current_throttle and the command handed to
\* teleop_publish (its throttle, and whether it is the stop command with
\* button_b = 1).  An inference command is published as it came.
throttle_control(current_throttle, stats, cmd) ==
    IF cmd.inference
    THEN [current_throttle |-> current_throttle,
          out |-> Some([throttle |-> IF cmd.has_throttle THEN Some(cmd.throttle) ELSE None,
                        stop |-> FALSE])]
    ELSE IF cmd.has_throttle /\ stats # Some("Start Following")
    THEN LET moved == IF cmd.first_key = "steering"
                      THEN Brake(current_throttle)
                      ELSE Accelerate(current_throttle, cmd.throttle)
         IN [current_throttle |-> moved,
             out |-> Some([throttle |-> Some(moved), stop |-> FALSE])]
    ELSE [current_throttle |-> 0,
          out |-> Some([throttle |-> Some(0), stop |-> TRUE])]

\* A command arrives on the control socket: throttle_control(cmd).
ThrottleControl ==
    /\ \E cmd \in Commands :
         LET r == throttle_control(teleop.current_throttle, teleop.stats, cmd)
         IN teleop' = [teleop EXCEPT
                          !.current_throttle = r.current_throttle,
                          !.last = Some([cmd |-> cmd, stats |-> teleop.stats,
                                         before |-> teleop.current_throttle,
                                         out |-> r.out])]
    /\ UNCHANGED <<mvars, svars, app, follow>>

\* teleop_publish_to_following(cmd): stats = cmd["following"].
SwitchFollowing ==
    /\ \E following \in {"Start Following", "Stop Following"} :
         teleop' = [teleop EXCEPT !.stats = Some(following), !.last = None]
    /\ UNCHANGED <<mvars, svars, app, follow>>

TeleopNext == ThrottleControl \/ SwitchFollowing

TeleopSpec == Init /\ [][TeleopNext]_vars

----------------------------------------------------------------------------
(* The person-following controller: control_logic, called with each frame of *)
(* the camera stream (src/following/app.py).  Throttle is counted in         *)
(* hundredths, steering in 1/40000, box sizes in pixels.                     *)

SCREEN_CENTER == 320
CENTER_OFFSET == 0
SECOND_OFFSET == 80
THIRD_OFFSET == 70
START_HEIGHT == 340
UNSAFE_HEIGHT == 360
MAX_HUMAN_ABSENCE_FRAMES == 3
MIN_CLEAR_PATH_FRAMES == 3
\* SMOOTH_CONTROL_STEP = 0.1, in hundredths
SMOOTH_CONTROL_STEP == 10
\* 1.0 of steering
SteerUnit == 40000

\* The bounding boxes of the detected persons: y2 - y1 and (x1 + x2) / 2.
Heights == {300, 350, 360}
Centers == {60, 320, 400}
Boxes == [height : Heights, center : Centers]

\* The frames of the stream: the boxes of up to MaxPersons persons, the box of
\* the most confident detection first.
Frames == UNION {[1..n -> Boxes] : n \in 0..MaxPersons}

\* safety_feature(boxes): 0 when a person is too close, else clear_path + 1.
safety_feature(clear_path, boxes) ==
    IF \E i \in 1..Len(boxes) : boxes[i].height >= UNSAFE_HEIGHT
    THEN 0 ELSE clear_path + 1

\* decide_control: (1.15 - throttle * 0.75), in four-hundredths.
SteeringScale(throttle) == 460 - 3 * throttle

\* decide_control, the steering towards a person left or right of the screen
\* centre, in hundredths; 0 in the centre.
SteeringLaw(box_center) ==
    IF box_center < SCREEN_CENTER - CENTER_OFFSET
    THEN IF box_center < SCREEN_CENTER - CENTER_OFFSET - SECOND_OFFSET
         THEN Min(-10, Max(-50, (7 * box_center - 1840) \div 16))
         ELSE Min(0, Max(-10, (box_center - 320) \div 8))
    ELSE IF box_center > SCREEN_CENTER + CENTER_OFFSET
    THEN IF box_center > SCREEN_CENTER + CENTER_OFFSET + SECOND_OFFSET
         THEN Max(10, Min(50, (7 * box_center - 2640) \div 16))
         ELSE Max(0, Min(10, (box_center - 320) \div 8))
    ELSE 0

\* decide_control, one pass of "for box in boxes" with the box whose values
\* box_center and box_height hold: throttle and steering are carried from
\* pass to pass.
ControlPass(carried, box) ==
    LET started == IF box.height <= START_HEIGHT
                   THEN Max(20, Min(100, 360 - box.height))
                   ELSE carried.throttle
        scaled == SteeringLaw(box.center) * SteeringScale(started)
        left == box.center < SCREEN_CENTER - CENTER_OFFSET
        right == box.center > SCREEN_CENTER + CENTER_OFFSET
        turned ==
            IF ~left /\ ~right
            THEN [throttle |-> started, steering |-> carried.steering]
            ELSE IF started = 0
            THEN [throttle |-> Abs(scaled) \div 460,
                  steering |-> IF left THEN -SteerUnit ELSE SteerUnit]
            ELSE [throttle |-> started, steering |-> scaled]
    IN IF /\ Abs(box.center - SCREEN_CENTER) >= SCREEN_CENTER - THIRD_OFFSET
          /\ box.height <= START_HEIGHT
       THEN [turned EXCEPT !.steering = (@ * 400) \div SteeringScale(turned.throttle)]
       ELSE turned

\* decide_control, "for box in boxes" from pass k on.  With ids assigned the
\* values of the first box are used in every pass, without ids those of the
\* box of the pass.
RECURSIVE ControlLoop(_, _, _, _)
ControlLoop(carried, boxes, has_ids, k) ==
    IF k > Len(boxes) THEN carried
    ELSE ControlLoop(ControlPass(carried, IF has_ids THEN boxes[1] ELSE boxes[k]),
                     boxes, has_ids, k + 1)

\* Mutant of smooth_controls: the throttle is smoothed on its way down too.
smooth_controls_both_ways(f, target_throttle, target_steering) ==
    [f EXCEPT !.current_throttle =
                  IF f.current_throttle <= target_throttle - SMOOTH_CONTROL_STEP
                  THEN f.current_throttle + SMOOTH_CONTROL_STEP
                  ELSE IF f.current_throttle >= target_throttle + SMOOTH_CONTROL_STEP
                  THEN f.current_throttle - SMOOTH_CONTROL_STEP
                  ELSE target_throttle,
              !.current_steering = target_steering]

\* smooth_controls(target_throttle, target_steering)
smooth_controls(f, target_throttle, target_steering) ==
    [f EXCEPT !.current_throttle =
                  IF f.current_throttle <= target_throttle - SMOOTH_CONTROL_STEP
                  THEN f.current_throttle + SMOOTH_CONTROL_STEP
                  ELSE target_throttle,
              !.current_steering = target_steering]

\* Mutant of decide_control: the controls are kept for one empty frame more.
decide_control_late(f, boxes, has_ids) ==
    IF Len(boxes) = 0
    THEN IF f.no_human_counter + 1 > MAX_HUMAN_ABSENCE_FRAMES
         THEN [f EXCEPT !.no_human_counter = @ + 1,
                        !.current_throttle = 0, !.current_steering = 0]
         ELSE [f EXCEPT !.no_human_counter = @ + 1]
    ELSE LET target == ControlLoop([throttle |-> 0, steering |-> 0], boxes, has_ids, 1)
             throttle == IF f.clear_path <= MIN_CLEAR_PATH_FRAMES THEN 0
                         ELSE target.throttle
         IN smooth_controls([f EXCEPT !.no_human_counter = 0], throttle, target.steering)

\* decide_control(boxes): the controller after the call; the call returns its
\* current_throttle and current_steering.
decide_control(f, boxes, has_ids) ==
    IF Len(boxes) = 0
    THEN IF f.no_human_counter + 1 >= MAX_HUMAN_ABSENCE_FRAMES
         THEN [f EXCEPT !.no_human_counter = @ + 1,
                        !.current_throttle = 0, !.current_steering = 0]
         ELSE [f EXCEPT !.no_human_counter = @ + 1]
    ELSE LET target == ControlLoop([throttle |-> 0, steering |-> 0], boxes, has_ids, 1)
             throttle == IF f.clear_path <= MIN_CLEAR_PATH_FRAMES THEN 0
                         ELSE target.throttle
         IN smooth_controls([f EXCEPT !.no_human_counter = 0], throttle, target.steering)

\* run: the request "Start Following" arrives, and control_logic is called
\* with the stream.
FollowStart ==
    /\ follow.pc = "idle"
    /\ follow' = [follow EXCEPT !.pc = "following"]
    /\ UNCHANGED <<mvars, svars, app, teleop>>

\* control_logic, one frame: safety_feature, decide_control, the request
\* read from teleop, and the command published; "Stop Following" publishes
\* (0, 0) and ends control_logic.
FollowFrame ==
    /\ follow.pc = "following"
    /\ follow.frames < MaxFrames
    /\ \E boxes \in Frames, has_ids \in BOOLEAN, stop \in BOOLEAN :
         /\ Len(boxes) < 2 => has_ids
         /\ LET unsafe == \E i \in 1..Len(boxes) : boxes[i].height >= UNSAFE_HEIGHT
                checked == [follow EXCEPT !.clear_path = safety_feature(@, boxes)]
                decided == decide_control(checked, boxes, has_ids)
                ret == [throttle |-> decided.current_throttle,
                        steering |-> decided.current_steering]
                stopped == [decided EXCEPT !.current_throttle = 0,
                                           !.current_steering = 0,
                                           !.pc = "idle"]
                after == IF stop THEN stopped ELSE decided
            IN follow' = [after EXCEPT
                   !.published = IF stop THEN [throttle |-> 0, steering |-> 0] ELSE ret,
                   !.frames = @ + 1,
                   !.empty_frames = IF Len(boxes) = 0 THEN @ + 1 ELSE 0,
                   !.clear_frames = IF unsafe THEN Some(0)
                                    ELSE IF IsNone(@) THEN None ELSE Some(Val(@) + 1),
                   !.last = Some([detected |-> Len(boxes) > 0, unsafe |-> unsafe,
                                  ret |-> ret, prev |-> follow.published])]
    /\ UNCHANGED <<mvars, svars, app, teleop>>

FollowNext == FollowStart \/ FollowFrame

FollowSpec == Init /\ [][FollowNext]_vars

----------------------------------------------------------------------------
(* Properties of Navigator.forward and of the locking (checked under Spec)   *)

\* The navigation fields forward returns when it skips matching.
NoNavigation(loc) ==
    /\ IsNone(loc.nav_point_id)
    /\ IsNone(loc.nav_image_id)
    /\ IsNone(loc.nav_distance)
    /\ IsNone(loc.destination)

DefaultPublished ==
    Some([navigation_point |-> -1, navigation_image |-> -1, navigation_distance |-> EvUnit])

\* C1: forward never blocks on the Navigator lock: at its acquire the step of
\* forward can be taken whoever holds the lock, and a tick that did not obtain
\* the lock goes on, without another acquire, with waypoint, image, confidence
\* and destination None, publishes navigation_point = -1, navigation_image = -1,
\* navigation_distance = 1.0 and leaves the destination carry None.
C1_ForwardNeverBlocks ==
    /\ ctl.pc = "acquire" => ENABLED ForwardTryAcquire
    /\ (ctl.pc \in {"wr_gumbel", "wr_destination", "chat"} /\ ~ctl.loc.acquired)
          => NoNavigation(ctl.loc)
    /\ (ctl.pc = "chat" /\ ~ctl.loc.acquired)
          => (published = DefaultPublished /\ IsNone(destination))

\* C1 witness: a tick has returned that found the lock held by a route-open.
C1_Witness ==
    /\ ctl.pc = "chat"
    /\ ~ctl.loc.acquired
    /\ \E t \in TaskIds : lock = TaskThread(t)
    /\ published = DefaultPublished

\* The memory holds nothing: every field is None.
MemoryClosed(m) ==
    /\ IsNone(m.code_points) /\ IsNone(m.code_book) /\ IsNone(m.keys)
    /\ IsNone(m.values) /\ IsNone(m.evidence)

\* The memory is the completely built corpus of route r.
SnapshotOf(m, r) ==
    LET built == BuildArgs(Cardinality(Range(RouteCodes(r))), RouteCodes(r), r)
    IN /\ m.code_points = built.code_points
       /\ m.code_book = built.coordinates
       /\ m.keys = built.keys
       /\ m.values = built.values
       /\ Len(Val(m.code_points)) = Len(Val(m.code_book))
       /\ Len(Val(m.keys)) = Len(Val(m.code_book))
       /\ Len(Val(m.values)) = Len(Val(m.code_book))
       /\ m.num_points = built.n_points
       /\ ~IsNone(m.evidence)
       /\ Len(Val(m.evidence)) = m.num_points

\* A route-open thread is between its first reset of the memory and the reset
\* that commits the arrays it built.
Rebuilding(t) ==
    /\ tasks[t].kind = "open"
    /\ tasks[t].pc \in {"clear_gumbel", "clear_destination", "open", "len", "images",
                       "build", "commit"}

\* C2: when forward, holding the lock, evaluates is_open and calls match, no
\* route-open is part-way through a rebuild, and the memory of an open store is
\* either empty in every field or the complete snapshot of the selected route:
\* waypoint ids, corpus, keys and values of equal length, all of that route,
\* and one evidence entry per waypoint.
C2_NoPartialRebuildVisible ==
    ctl.pc = "locked" =>
        /\ \A t \in TaskIds : ~Rebuilding(t)
        /\ store_is_open(store) =>
              \/ MemoryClosed(memory)
              \/ SnapshotOf(memory, Val(store.selected))

\* C2 witness: forward holds the lock on the built corpus of route A while
\* another route-open thread is alive.
C2_Witness ==
    /\ ctl.pc = "locked"
    /\ store.selected = Some("A")
    /\ is_open(memory)
    /\ \E t \in TaskIds : tasks[t].kind = "open"

\* C3: the control-loop thread never stands at a blocking acquire of the
\* Navigator lock while another thread holds the lock.
C3_ControlLoopNeverWaits == ~(ctl.pc = "restart_lock" /\ lock # Free)

\* C4: every step that changes the route store or the Route Memory is taken
\* while the Navigator lock is held.
C4_MutationUnderLock ==
    [][(store' # store \/ memory' # memory) => lock # Free]_vars

----------------------------------------------------------------------------
(* Properties of RouteMemory (checked under MemSpec)                         *)

\* A match call has just returned; last holds its inputs and its outcome.
Matched == last.op = "match"

\* The waypoint (1-based) whose evidence received the bonus of the last call.
Receiver == Val(last.before.code_points)[last.out.d_iid + 1] + 1

\* C5: a match call reports waypoint p as matched only if p's evidence was
\* above 0.99 when the decision was taken, and on return p's evidence is -1.
C5_MatchOnlyAboveThreshold ==
    (Matched /\ ~IsNone(last.out.ret_match)) =>
        LET p == Val(last.out.ret_match) + 1
        IN /\ last.out.ev_bonus[p] > MatchThreshold
           /\ Val(memory.evidence)[p] = EvidenceFloor

\* C5 witness: a waypoint is reported by the second call on a corpus.
C5_Witness ==
    /\ Matched
    /\ ~IsNone(last.out.ret_match)
    /\ calls = 2

\* C6 as stated: after a match call every entry but the bonus receiver's is
\* in [-1, 0.30], and no call takes in an evidence value above 0.30.
C6_BonusSeenOnlyByItsCall ==
    Matched =>
        /\ \A w \in DOMAIN Val(memory.evidence) :
              w # Receiver =>
                 /\ EvidenceFloor <= Val(memory.evidence)[w]
                 /\ Val(memory.evidence)[w] <= EvidenceCap
        /\ \A w \in DOMAIN Val(last.before.evidence) :
              Val(last.before.evidence)[w] <= EvidenceCap

\* C6 as the code has it: after a match call every entry but the bonus
\* receiver's is in [-1, 0.30] and the receiver's is at most 0.99; a value the
\* bonus left above 0.30 stays in the evidence and is an input of the next
\* call, which brings every entry back into [-1, 0.30] by its own decay and
\* clip before it adds its bonus.
C6_BonusCarriedUntilNextClip ==
    Matched =>
        /\ \A w \in DOMAIN Val(memory.evidence) :
              w # Receiver =>
                 /\ EvidenceFloor <= Val(memory.evidence)[w]
                 /\ Val(memory.evidence)[w] <= EvidenceCap
        /\ Val(memory.evidence)[Receiver] <= MatchThreshold
        /\ \A w \in DOMAIN last.out.ev_clip :
              /\ EvidenceFloor <= last.out.ev_clip[w]
              /\ last.out.ev_clip[w] <= EvidenceCap

\* C6 witness: a call that took in an evidence value above 0.30.
C6_Witness ==
    /\ Matched
    /\ \E w \in DOMAIN Val(last.before.evidence) :
          Val(last.before.evidence)[w] > EvidenceCap

\* C7: the confidence a match call returns is never negative.
C7_ConfidenceNonNegative == Matched => last.out.ret_confidence >= 0

\* C7 witness: the displayed image's waypoint has just been reset to -1.
C7_Witness ==
    /\ Matched
    /\ last.out.ret_confidence = 0
    /\ Val(memory.evidence)[Val(memory.code_points)[last.out.ret_image + 1] + 1]
          = EvidenceFloor

\* The selection weight of the image the call selected is the largest among
\* the images in the set.
BestAmong(images) ==
    /\ (last.out.s_iid + 1) \in images
    /\ \A i \in images : last.selections[i] <= last.selections[last.out.s_iid + 1]

C9_OpenIffCorpusNonEmpty ==
    last.op = "reset" =>
        (is_open(memory) <=>
            (~IsNone(memory.code_book) /\ Len(Val(memory.code_book)) > 0))

\* Scenario A: the first call on a single-image corpus tagged waypoint 0, with
\* evidence 0, distance 0 and selection weight 1.
ScenarioA ==
    /\ Matched
    /\ last.before.code_points = Some(<<0>>)
    /\ last.before.evidence = Some(<<0>>)
    /\ last.distances = <<0>>
    /\ last.selections = <<SelUnit>>

\* C10 as stated: in scenario A the evidence goes 0.3 after the outlier step,
\* 0.27 after decay and clip, 1.37 after the bonus; waypoint 0 is reported and
\* its evidence is -1 afterwards.
C10_ScenarioA_AsStated ==
    ScenarioA =>
        /\ last.out.ev_outlier = <<3 * OutlierStep>>
        /\ last.out.ev_clip = <<27 * (EvUnit \div 100)>>
        /\ last.out.ev_bonus = <<137 * (EvUnit \div 100)>>
        /\ last.out.ret_match = Some(0)
        /\ memory.evidence = Some(<<EvidenceFloor>>)

\* C10 as the code has it: a single distance passes none of the outlier tests,
\* so in scenario A the evidence goes 0 after the outlier step, 0 after decay
\* and clip, 1.1 after the bonus; waypoint 0 is reported on this first call and
\* its evidence is -1 afterwards.
C10_ScenarioA_AsCoded ==
    ScenarioA =>
        /\ last.out.ev_outlier = <<0>>
        /\ last.out.ev_clip = <<0>>
        /\ last.out.ev_bonus = <<11 * (EvUnit \div 10)>>
        /\ last.out.ret_match = Some(0)
        /\ memory.evidence = Some(<<EvidenceFloor>>)

\* C10 witness: scenario A has been run as the first call after the reset.
C10_Witness == ScenarioA /\ calls = 1

\* The number of outlier tests that added to the evidence of waypoint w
\* (1-based) in the last call.
OutlierSteps(w) ==
    (last.out.ev_outlier[w] - Val(last.before.evidence)[w]) \div OutlierStep

\* A tick of scenario B: one waypoint, exactly one outlier test adds 0.1, and
\* d_prob = s_prob = 0.5.
ScenarioBTick ==
    /\ Matched
    /\ last.before.num_points = 1
    /\ OutlierSteps(1) = 1
    /\ last.distances[ArgMin(last.distances)] = DistUnit \div 2
    /\ last.selections[ArgMax(last.selections)] = SelUnit \div 2

\* The evidence of the one waypoint after one and after two ticks of
\* scenario B from 0: 0.365 and 0.575.
ScenarioB1 == 365 * (EvUnit \div 1000)
ScenarioB2 == 575 * (EvUnit \div 1000)

\* C11 as stated: in scenario B no match is reported on ticks 1 and 2 and the
\* waypoint is reported as matched on tick 3.
C11_ScenarioB_AsStated ==
    ScenarioBTick =>
        /\ (calls = 1 /\ last.before.evidence = Some(<<0>>))
              => IsNone(last.out.ret_match)
        /\ (calls = 2 /\ last.before.evidence = Some(<<ScenarioB1>>))
              => IsNone(last.out.ret_match)
        /\ (calls = 3 /\ last.before.evidence = Some(<<ScenarioB2>>))
              => last.out.ret_match = Some(0)

\* C11 as the code has it: in scenario B the evidence after the bonus is 0.365
\* on tick 1 and 0.575 on ticks 2 and 3, because the decayed evidence is
\* clipped to 0.30 before the bonus 0.275 is added; no tick of scenario B
\* reports a match, whatever the evidence it starts from.
C11_ScenarioB_AsCoded ==
    ScenarioBTick =>
        /\ IsNone(last.out.ret_match)
        /\ last.out.ev_bonus[1] <= ScenarioB2
        /\ (calls = 1 /\ last.before.evidence = Some(<<0>>))
              => memory.evidence = Some(<<ScenarioB1>>)
        /\ (calls = 2 /\ last.before.evidence = Some(<<ScenarioB1>>))
              => memory.evidence = Some(<<ScenarioB2>>)
        /\ (calls = 3 /\ last.before.evidence = Some(<<ScenarioB2>>))
              => memory.evidence = Some(<<ScenarioB2>>)

\* C11 witness: the third tick of scenario B in a row.
C11_Witness ==
    /\ ScenarioBTick
    /\ calls = 3
    /\ last.before.evidence = Some(<<ScenarioB2>>)

----------------------------------------------------------------------------
(* Properties of the ticks of Navigator.forward (checked under Spec)         *)

\* A background thread holds the Navigator lock.
Busy == \E t \in TaskIds : lock = TaskThread(t)

\* C12: every step that forward takes while a route-open thread holds the lock
\* leaves the Route Memory (evidence and confirmed waypoint included) as it
\* was and raises nothing; the acquire taken then fails and leaves the
\* navigation fields None, and the tick that did not obtain the lock returns
\* the default navigation fields.
C12_BusyTickLeavesMemory ==
    [][(ctl' # ctl) =>
          /\ Busy => (memory' = memory /\ ctl'.pc # "failed")
          /\ (Busy /\ ctl.pc = "acquire")
                => (~ctl'.loc.acquired /\ NoNavigation(ctl'.loc) /\ ctl'.pc = "wr_gumbel")
          /\ (ctl.pc \in {"wr_gumbel", "wr_destination"} /\ ~ctl.loc.acquired)
                => (memory' = memory /\ ctl'.pc # "failed")
          /\ (ctl.pc = "wr_destination" /\ ~ctl.loc.acquired)
                => published' = DefaultPublished]_vars

\* C12 witness: a tick has returned the default fields while a route-open
\* thread holds the lock in the middle of its rebuild.
C12_Witness ==
    /\ ctl.pc = "chat"
    /\ ~ctl.loc.acquired
    /\ published = DefaultPublished
    /\ \E t \in TaskIds : lock = TaskThread(t) /\ Rebuilding(t)

\* C16: in every tick the network is fed a command derived from the intention
\* exactly when it is fed no destination carry, and a destination carry is
\* fed only together with the gumbel sample carried from the previous tick.
C16_CarriesFedTogether ==
    ctl.pc = "acquire" =>
        /\ (ctl.loc.command = Some(IntentionCommand)) <=> IsNone(ctl.loc.l_destination)
        /\ ~IsNone(ctl.loc.l_destination)
              => (ctl.loc.command = ctl.loc.l_gumbel /\ ~IsNone(ctl.loc.l_gumbel))

\* What the network is fed in the tick under way: the carries as forward read
\* them, and the command.
FedGumbel == ctl.loc.l_gumbel
FedDestination == ctl.loc.l_destination
FedCommand == ctl.loc.command

\* The network has been called in a tick that follows a returned tick.
NextTickFed == ctl.pc = "acquire" /\ ticks >= 2

\* C17 as stated: after a tick without destination the next tick feeds a
\* command derived from the intention and no destination; after a tick in
\* which match returned a destination the next tick feeds that tick's gumbel
\* sample and that destination.
C17_NextTickFeedsCarries ==
    NextTickFed =>
        IF IsNone(ctl.prev.destination)
        THEN /\ FedCommand = Some(IntentionCommand)
             /\ IsNone(FedDestination)
        ELSE /\ FedCommand = ctl.prev.gumbel_out
             /\ FedDestination = ctl.prev.destination

\* C17 as the code has it: after a tick without destination both carries are
\* None when it returns and the next tick feeds a command derived from the
\* intention and no destination; after a tick in which match returned a
\* destination the next tick feeds, for each carry, either what that tick
\* produced or nothing; and outside forward's own two writes a carry changes
\* only to None, by a thread that holds the lock (a route-open or a restart).
C17_NextTickFeedsCarriesUnlessCleared ==
    /\ [](NextTickFed =>
            IF IsNone(ctl.prev.destination)
            THEN /\ IsNone(FedGumbel)
                 /\ FedCommand = Some(IntentionCommand)
                 /\ IsNone(FedDestination)
            ELSE /\ FedGumbel \in {None, ctl.prev.gumbel_out}
                 /\ FedCommand = (IF IsNone(FedGumbel) THEN Some(IntentionCommand)
                                  ELSE ctl.prev.gumbel_out)
                 /\ FedDestination \in {None, ctl.prev.destination})
    /\ []((ctl.pc = "chat" /\ IsNone(ctl.prev.destination))
            => (IsNone(gumbel) /\ IsNone(destination)))
    /\ [][((gumbel' # gumbel \/ destination' # destination)
             /\ ctl.pc \notin {"wr_gumbel", "wr_destination"})
            => /\ lock # Free
               /\ gumbel' \in {gumbel, None}
               /\ destination' \in {destination, None}]_vars

\* C17 witness: a tick is fed the gumbel sample and the destination of the
\* tick before.
C17_Witness ==
    /\ NextTickFed
    /\ ~IsNone(ctl.prev.destination)
    /\ FedCommand = ctl.prev.gumbel_out
    /\ FedDestination = ctl.prev.destination

\* A route-open thread for the route is alive.
OpenPending(route) ==
    \E t \in TaskIds : tasks[t].kind = "open" /\ tasks[t].route = route

\* C18: after a route-open for route R has failed (the Route Memory is closed
\* and no route-open for R is alive), a tick that requests R, R being listed,
\* starts a new route-open thread for R.
C18_FailedOpenIsRetried ==
    [][(/\ ctl.pc = "tick"
        /\ ctl'.pc = "rd_gumbel"
        /\ ~IsNone(ctl'.loc.route)
        /\ Val(ctl'.loc.route) \in store_list_routes(store)
        /\ ~is_open(memory)
        /\ ~OpenPending(ctl'.loc.route))
          => \E t \in TaskIds :
                /\ tasks'[t].kind = "open"
                /\ tasks'[t].route = ctl'.loc.route]_vars

\* C19: when match raises during forward, the lock is released and the tick
\* goes on to return its outputs with the navigation fields None.
C19_MatchFailureLeavesTick ==
    last.op = "raised" =>
        /\ lock # CtlThread
        /\ ctl.pc # "failed"
        /\ NoNavigation(ctl.loc)

----------------------------------------------------------------------------
(* Further properties of RouteMemory (checked under MemSpec)                 *)

\* A match call with a vector of the wrong length has just ended.
Mismatched ==
    /\ last.op = "raised"
    /\ Len(Val(last.before.code_book)) > 0

\* C20: a match call with a coordinate or query vector of another length than
\* the stored ones raises, and leaves the evidence and the confirmed waypoint
\* (and the rest of the memory) as they were before the call.
C20_MismatchRaisesUnchanged ==
    Mismatched =>
        /\ ShapeError(last.f_dim, last.q_dim)
        /\ memory.evidence = last.before.evidence
        /\ memory.navigation_point = last.before.navigation_point
        /\ memory = last.before

\* C20 witness: a call with a wrong length has raised on a memory that holds a
\* confirmed waypoint and evidence gathered by earlier calls.
C20_Witness ==
    /\ Mismatched
    /\ ~IsNone(memory.navigation_point)
    /\ \E w \in DOMAIN Val(memory.evidence) : Val(memory.evidence)[w] > 0

\* The number of the three outlier tests that image i passes in the last call.
TestsPassed(i) ==
    LET st == outlier_stats(last.distances)
        d == last.distances[i]
    IN (IF BelowStd(d, st) THEN 1 ELSE 0) + (IF BelowLqr(d, st) THEN 1 ELSE 0)
         + (IF BelowMad(d, st) THEN 1 ELSE 0)

\* C13: in the outlier step every image adds 0.1 to the evidence of its
\* waypoint for each test it passes, the additions of different images of a
\* waypoint adding up.
C13_OutlierEvidenceAccumulates ==
    Matched =>
        LET codes == Val(last.before.code_points)
        IN \A w \in DOMAIN Val(last.before.evidence) :
              last.out.ev_outlier[w] - Val(last.before.evidence)[w]
                 = OutlierStep * SumSeq(AsSeq([i \in DOMAIN codes |->
                                     IF codes[i] + 1 = w THEN TestsPassed(i) ELSE 0]))

\* The call before the last one reported waypoint p (1-based): p is the
\* confirmed waypoint and its evidence is the -1 it was set back to.
ReportedBefore(p) ==
    /\ last.before.navigation_point = Some(p - 1)
    /\ Val(last.before.evidence)[p] = EvidenceFloor

\* C14: a waypoint that one match call reported is not reported by the next
\* call on the same memory: its evidence stays below the threshold there.
C14_NoRefireNextCall ==
    Matched =>
        \A p \in DOMAIN Val(last.before.evidence) :
            ReportedBefore(p) =>
               /\ last.out.ret_match # Some(p - 1)
               /\ last.out.ev_bonus[p] <= MatchThreshold

\* C14 witness: the call after a match gives the matched waypoint the full
\* bonus of d_prob = s_prob = 1 again.
C14_Witness ==
    /\ Matched
    /\ ReportedBefore(Receiver)
    /\ last.distances[last.out.d_iid + 1] = 0
    /\ last.selections[ArgMax(last.selections)] = SelUnit

----------------------------------------------------------------------------
(* Properties of RouteMemory over a run of ticks (checked under SeqSpec)     *)

\* The last call reported a waypoint other than the one confirmed before it.
NewlyConfirmed ==
    /\ ~IsNone(last.out.ret_match)
    /\ last.out.ret_match # last.before.navigation_point

\* C15: match returns the nearest image d_idx as the image to display, and
\* updates the confirmed waypoint, when the call reports a waypoint that
\* differs from the one confirmed before; in every other case, a report of
\* the waypoint already confirmed included, it returns the selected image
\* s_idx and leaves the confirmed waypoint as it was.
C15_DisplayImage ==
    Matched =>
        IF NewlyConfirmed
        THEN /\ last.out.ret_image = last.out.d_iid
             /\ memory.navigation_point = last.out.ret_match
        ELSE /\ last.out.ret_image = last.out.s_iid
             /\ memory.navigation_point = last.before.navigation_point

\* C15 witness: a call reports the waypoint that is already confirmed, and the
\* nearest image is not the selected one.
C15_Witness ==
    /\ Matched
    /\ ~IsNone(last.out.ret_match)
    /\ last.out.ret_match = last.before.navigation_point
    /\ last.out.d_iid # last.out.s_iid
    /\ last.out.ret_image = last.out.s_iid

----------------------------------------------------------------------------
(* The order of the evidence update (checked under MemSpec)                  *)

\* d_prob * s_prob * 1.1 of the last call, from its distances and selections.
LastBonus ==
    Bonus(DistUnit - last.distances[ArgMin(last.distances)],
          last.selections[ArgMax(last.selections)])

\* C25: within one match call the evidence is updated in this order: the
\* outlier additions (0 to 3 times 0.1 per waypoint), then the multiplication
\* of every entry by 0.90, then the clip of every entry into [-1, 0.30], then
\* the bonus d_prob * s_prob * 1.1, unclipped, added to the entry of the
\* nearest image's waypoint and to no other; a waypoint is reported exactly
\* when an entry of the vector so produced exceeds 0.99.
C25_UpdateOrder ==
    Matched =>
        LET ev0 == Val(last.before.evidence)
            o == last.out
        IN /\ \A w \in DOMAIN ev0 :
                 (o.ev_outlier[w] - ev0[w]) \in {k * OutlierStep : k \in 0..3}
           /\ \A w \in DOMAIN ev0 :
                 o.ev_clip[w] =
                    Max(0 - EvUnit,
                        Min(3 * (EvUnit \div 10),
                            RoundDiv(o.ev_outlier[w] * MomentumTenths, 10)))
           /\ \A w \in DOMAIN ev0 :
                 o.ev_bonus[w] = o.ev_clip[w] + (IF w = Receiver THEN LastBonus ELSE 0)
           /\ ~IsNone(o.ret_match) <=>
                 \E w \in DOMAIN ev0 : o.ev_bonus[w] > 99 * (EvUnit \div 100)

\* C25 witness: a call in which every stage acts on the receiver's entry: an
\* outlier addition, a decay to a value above 0.30 that the clip cuts, and a
\* bonus that lifts the entry above 0.30 again.
C25_Witness ==
    /\ Matched
    /\ last.out.ev_outlier[Receiver] > Val(last.before.evidence)[Receiver]
    /\ RoundDiv(last.out.ev_outlier[Receiver] * MomentumTenths, 10) > EvidenceCap
    /\ last.out.ev_clip[Receiver] = EvidenceCap
    /\ last.out.ev_bonus[Receiver] > EvidenceCap

\* The last call reported a waypoint.
Reported == Matched /\ ~IsNone(last.out.ret_match)

\* C27: a waypoint that match reports is the waypoint of the nearest image of
\* the same call, and every other evidence entry is at most 0.30 when the
\* decision is taken.
C27_ReportedIsNearest ==
    Reported =>
        /\ Val(last.out.ret_match) = Val(last.before.code_points)[last.out.d_iid + 1]
        /\ \A w \in DOMAIN last.out.ev_bonus :
              w # Receiver => last.out.ev_bonus[w] <= 3 * (EvUnit \div 10)

\* C27 witness: the second waypoint of a route is reported while the first
\* stands at the cap 0.30.
C27_Witness ==
    /\ Reported
    /\ Receiver = 2
    /\ last.out.ev_bonus[1] = EvidenceCap

\* C28: a waypoint is reported only by a call whose bonus d_prob * s_prob * 1.1
\* is greater than 0.69, whatever evidence the earlier calls have gathered.
C28_MatchNeedsBonus ==
    Reported => LastBonus > 69 * (EvUnit \div 100)

\* C28 witness: a waypoint is reported by a call whose bonus alone is below
\* the threshold, on evidence gathered by the call before and cut to 0.30.
C28_Witness ==
    /\ Reported
    /\ LastBonus <= MatchThreshold
    /\ Val(last.before.evidence)[Receiver] > EvidenceCap
    /\ last.out.ev_clip[Receiver] = EvidenceCap

----------------------------------------------------------------------------
(* Further properties of RouteMemory over a run of ticks (SeqSpec)           *)

\* C29: a match call that reports a waypoint other than the one confirmed
\* before returns the confidence 0: the image it returns is the nearest
\* image, whose waypoint is the reported one, and that waypoint's evidence has
\* just been set to -1.
C29_NewMatchConfidenceZero ==
    (Matched /\ NewlyConfirmed) =>
        /\ last.out.ret_confidence = 0
        /\ last.out.ret_image = last.out.d_iid
        /\ Val(last.before.code_points)[last.out.ret_image + 1] = Val(last.out.ret_match)
        /\ Val(memory.evidence)[Val(last.out.ret_match) + 1] = 0 - EvUnit

\* C29 witness: a call reports the second waypoint after the first had been
\* confirmed.
C29_Witness ==
    /\ Matched
    /\ NewlyConfirmed
    /\ last.before.navigation_point = Some(0)
    /\ last.out.ret_match = Some(1)
    /\ last.out.ret_confidence = 0

----------------------------------------------------------------------------
(* Further properties of the ticks of Navigator.forward (Spec)               *)

\* The tick under way has called match, and match has returned.
TickMatched ==
    /\ ctl.pc \in {"wr_gumbel", "wr_destination", "chat"}
    /\ ~IsNone(ctl.loc.nav_image_id)

\* The tick that returned last had called match: it published an image.
PrevTickMatched ==
    /\ ~IsNone(published)
    /\ Val(published).navigation_image # -1

\* C30 as stated: every match call that returns gives a destination, and the
\* tick after a tick in which match ran feeds the gumbel sample of that tick
\* as its command, not the command derived from the intention.
C30_MatchSetsCommandCarry ==
    /\ TickMatched => ~IsNone(ctl.loc.destination)
    /\ (NextTickFed /\ PrevTickMatched) =>
          /\ FedCommand = ctl.prev.gumbel_out
          /\ FedCommand # Some(IntentionCommand)

\* C30 as the code has it: every match call that returns gives a destination,
\* whether or not it reports a waypoint; the tick then writes its gumbel
\* sample into the command carry; and the next tick feeds that sample as its
\* command unless the carry has been cleared in between (by a route-open or a
\* restart), in which case it feeds the command derived from the intention.
C30_MatchSetsCommandCarryUnlessCleared ==
    /\ [](TickMatched => ~IsNone(ctl.loc.destination))
    /\ [][(ctl.pc = "wr_gumbel" /\ ctl'.pc = "wr_destination" /\ TickMatched)
            => (gumbel' = ctl.loc.gumbel_out /\ ~IsNone(gumbel'))]_vars
    /\ []((NextTickFed /\ PrevTickMatched) =>
            /\ ~IsNone(ctl.prev.destination)
            /\ FedCommand = (IF IsNone(FedGumbel) THEN Some(IntentionCommand)
                             ELSE ctl.prev.gumbel_out))

\* C30 witness: the tick after a tick in which match ran and reported no
\* waypoint is fed that tick's gumbel sample as its command.
C30_Witness ==
    /\ NextTickFed
    /\ PrevTickMatched
    /\ Val(published).navigation_point = -1
    /\ FedCommand = ctl.prev.gumbel_out

----------------------------------------------------------------------------
(* Properties of the route switch (Spec)                                     *)

\* The step is a step of the background thread in slot t.
TaskStep(t) == tasks'[t] # tasks[t] /\ tasks[t].kind # "none"

\* C22: a tick whose requested route is the store's selected route starts no
\* thread; and a route-open thread that, holding the lock, finds its route
\* selected ends there, leaving the Route Memory (corpus, evidence, confirmed
\* waypoint), both carries and the store as they were.
C22_SameRouteIsNoOp ==
    [][/\ (/\ ctl.pc = "tick"
           /\ ctl'.pc = "rd_gumbel"
           /\ ~IsNone(ctl'.loc.route)
           /\ ctl'.loc.route = store_get_selected_route(store))
             => tasks' = tasks
       /\ \A t \in TaskIds :
             (/\ TaskStep(t)
              /\ tasks[t].kind = "open"
              /\ lock = TaskThread(t)
              /\ tasks[t].pc = "check"
              /\ tasks[t].route = store_get_selected_route(store))
                => /\ memory' = memory
                   /\ gumbel' = gumbel
                   /\ destination' = destination
                   /\ store' = store
                   /\ tasks'[t] = NoTask
                   /\ lock' = Free]_vars

\* C22 witness: a second route-open thread for the route that the first one
\* has built holds the lock at its route check, the memory holding that
\* route's corpus with evidence gathered since, and both carries being set.
C22_Witness ==
    \E t \in TaskIds :
        /\ TaskAt(t, "open", "check")
        /\ lock = TaskThread(t)
        /\ tasks[t].route = store_get_selected_route(store)
        /\ SnapshotOf(memory, Val(tasks[t].route))
        /\ \E w \in DOMAIN Val(memory.evidence) : Val(memory.evidence)[w] # 0
        /\ ~IsNone(gumbel)
        /\ ~IsNone(destination)

\* C24: while the memory holds the corpus of the route that the tick under
\* way requested (the latest request), no step of a route-open thread started
\* for another route (an earlier request) changes the memory.
C24_StaleRebuildNeverOverwrites ==
    [][\A r \in RouteNames :
          (ctl.loc.route = Some(r) /\ SnapshotOf(memory, r)) =>
              \A t \in TaskIds :
                  (TaskStep(t) /\ tasks[t].kind = "open" /\ tasks[t].route # Some(r))
                     => memory' = memory]_vars

\* The route whose image a destination value was extracted from.
DestinationRoute(d) == Val(d)[2][1]

\* C26: once a route-open thread has reset the memory, cleared the carries
\* and selected its route in the store, a tick that reads the destination
\* carry reads no destination that match produced on another route's memory.
C26_NoStaleDestinationFed ==
    [][(/\ ctl.pc = "rd_destination"
        /\ ctl'.pc = "acquire"
        /\ store_is_open(store)
        /\ ~IsNone(ctl'.loc.l_destination))
          => DestinationRoute(ctl'.loc.l_destination)
                = Val(store_get_selected_route(store))]_vars

----------------------------------------------------------------------------
(* Properties of the application restart (AppSpec)                           *)

\* The step handles a restart command.
RestartCommand ==
    /\ app.pc = "chat"
    /\ app.chatter = Some("restart")
    /\ app'.pc = "step"

----------------------------------------------------------------------------
(* Liveness of the route switch (LiveSpec)                                   *)

\* A tick that starts requests route r.
RequestsOnly(r) ==
    (ctl.pc = "tick" /\ ctl'.pc = "rd_gumbel") => ctl'.loc.route = Some(r)

\* The store has route r selected and the memory is open with r's corpus.
Settled(r) ==
    /\ store_get_selected_route(store) = Some(r)
    /\ SnapshotOf(memory, r)

\* C21: if from some tick on every tick requests the same route r, and r is
\* in the routes directory, then eventually the store has r selected and the
\* memory is open with r's corpus, and this stays so for ever.
C21_EventuallySettled ==
    \A r \in RouteNames :
        (<>[][RequestsOnly(r)]_vars /\ <>[](r \in disk)) => <>[]Settled(r)

\* C21 witness: route B is selected and built while a thread started for a
\* request of route A is still waiting for the lock.
C21_Witness ==
    /\ Settled("B")
    /\ ctl.loc.route = Some("B")
    /\ \E t \in TaskIds : TaskAt(t, "open", "lock") /\ tasks[t].route = Some("A")

----------------------------------------------------------------------------
(* The threads a tick starts (Spec) *)

\* The route-open threads alive for route r: started, waiting for the lock
\* or running under it.
AliveFor(r) == {t \in TaskIds : tasks[t].kind = "open" /\ tasks[t].route = Some(r)}

\* C31: at any time at most one route-open thread per requested route is
\* alive; a tick that requests a route whose rebuild is in flight starts no
\* further thread for it.
C31_OneOpenTaskPerRoute == \A r \in RouteNames : Cardinality(AliveFor(r)) <= 1

----------------------------------------------------------------------------
(* Properties of throttle_control (TeleopSpec) *)

\* The last call of throttle_control.
LastCall == Val(teleop.last)

\* The last call had a command that is no inference command and holds a
\* throttle value.
ThrottleCommand ==
    /\ ~IsNone(teleop.last)
    /\ ~LastCall.cmd.inference
    /\ LastCall.cmd.has_throttle

\* The last call was made while following was active.
WhileFollowing == LastCall.stats = Some("Start Following")

\* C32: throttle_control publishes no command to the teleop channel for a
\* non-inference command that holds a throttle value while following is
\* active.
C32_SilentWhileFollowing ==
    (ThrottleCommand /\ WhileFollowing) => IsNone(LastCall.out)

\* C33: a command with no throttle input (first key "steering") moves
\* current_throttle by one step of 0.1 towards 0, capped at 0, and never
\* changes its sign (so it reaches 0 after finitely many commands and stays).
C33_BrakingTowardsZero ==
    (ThrottleCommand /\ ~WhileFollowing /\ LastCall.cmd.first_key = "steering") =>
        /\ Abs(teleop.current_throttle) = Max(0, Abs(LastCall.before) - ThrottleStep)
        /\ teleop.current_throttle * LastCall.before >= 0

\* The throttle after n more commands with the same target.
RECURSIVE AccelerateTimes(_, _, _)
AccelerateTimes(current_throttle, target_throttle, n) ==
    IF n = 0 THEN current_throttle
    ELSE AccelerateTimes(Accelerate(current_throttle, target_throttle), target_throttle, n - 1)

\* Commands enough to cross the whole range of throttle values.
EnoughCommands == (2 * MaxTarget) \div ThrottleStep + 1

\* C34: a command with throttle input and target t publishes a throttle that
\* lies between current_throttle and t, one step of 0.1 nearer to t or t
\* itself; repeated, the command brings the throttle to t after finitely many
\* commands and keeps it there.
C34_AcceleratingTowardsTarget ==
    (ThrottleCommand /\ ~WhileFollowing /\ LastCall.cmd.first_key = "throttle") =>
        LET t == LastCall.cmd.throttle
            b == LastCall.before
            a == teleop.current_throttle
        IN /\ LastCall.out = Some([throttle |-> Some(a), stop |-> FALSE])
           /\ Min(b, t) <= a /\ a <= Max(b, t)
           /\ Abs(t - a) = Max(0, Abs(t - b) - ThrottleStep)
           /\ \A n \in EnoughCommands..(EnoughCommands + 2) : AccelerateTimes(b, t, n) = t

\* C34 witness: a command whose target is less than a step away from the
\* throttle, above it or below it, has set the throttle to the target.
C34_Witness ==
    /\ ThrottleCommand /\ ~WhileFollowing /\ LastCall.cmd.first_key = "throttle"
    /\ LastCall.before # LastCall.cmd.throttle
    /\ Abs(LastCall.cmd.throttle - LastCall.before) < ThrottleStep
    /\ LastCall.before < 0
    /\ teleop.current_throttle = LastCall.cmd.throttle

----------------------------------------------------------------------------
(* Properties of the following controller (FollowSpec) *)

\* The frame handled last.
LastFrame == Val(follow.last)

\* A person was too close in the frame handled last or in one of the
\* MIN_CLEAR_PATH_FRAMES frames before it.
PathObstructed ==
    /\ ~IsNone(follow.last)
    /\ ~IsNone(follow.clear_frames)
    /\ Val(follow.clear_frames) <= MIN_CLEAR_PATH_FRAMES

\* C35: in a frame where a detected person's box is UNSAFE_HEIGHT high or
\* higher the throttle returned is 0, and it stays 0 in every frame after it
\* until more than MIN_CLEAR_PATH_FRAMES frames in a row without such a
\* detection have passed.
C35_SafetyStop == PathObstructed => LastFrame.ret.throttle = 0

\* C35 witness: the third frame after a person was too close shows a person
\* far enough to start moving, and the throttle returned is 0.
C35_Witness ==
    /\ PathObstructed
    /\ follow.clear_frames = Some(MIN_CLEAR_PATH_FRAMES)
    /\ LastFrame.detected
    /\ LastFrame.ret.steering # 0
    /\ LastFrame.ret.throttle = 0

\* C36: with no person detected for MAX_HUMAN_ABSENCE_FRAMES frames in a row or
\* more decide_control returns throttle 0 and steering 0; with fewer it returns
\* the throttle and steering of the frame before; a frame with a detection
\* sets the absence counter to 0.
C36_AbsenceRule ==
    ~IsNone(follow.last) =>
        /\ (~LastFrame.detected /\ follow.empty_frames >= MAX_HUMAN_ABSENCE_FRAMES) =>
               LastFrame.ret = [throttle |-> 0, steering |-> 0]
        /\ (~LastFrame.detected /\ follow.empty_frames < MAX_HUMAN_ABSENCE_FRAMES) =>
               LastFrame.ret = LastFrame.prev
        /\ LastFrame.detected => follow.no_human_counter = 0
        /\ follow.no_human_counter = follow.empty_frames

\* C36 witness: the third empty frame in a row, after two that kept the
\* vehicle moving.
C36_Witness ==
    /\ ~IsNone(follow.last)
    /\ ~LastFrame.detected
    /\ follow.empty_frames = MAX_HUMAN_ABSENCE_FRAMES
    /\ LastFrame.prev.throttle > 0
    /\ LastFrame.ret = [throttle |-> 0, steering |-> 0]

=============================================================================
